---- MODULE Spec2Model ----
(***************************************************************************)
(* A model of simplefs (github.com/unkn0wn-root/simplefs): the sandboxed   *)
(* filesystem facade SimpleFS, its write-ahead Journal, its per-path       *)
(* resource locks and its hook pipeline.                                   *)
(*                                                                         *)
(* One goroutine calls the facade.  Its call stack is the variable `stack`:*)
(* every facade method is a frame that advances one step at a time, so a   *)
(* method blocked on a mutex it (or one of its callers) already holds is a *)
(* state with no successor for that frame.                                 *)
(*                                                                         *)
(* Paths are sequences of path components; a path string "a/../b" is the   *)
(* record [abs |-> FALSE, segs |-> <<"a", "..", "b">>].                    *)
(***************************************************************************)
EXTENDS Integers, Sequences, FiniteSets, TLC

VARIABLES
    rootPath,    \* SimpleFS.rootPath: components of the absolute root
    journaling,  \* SimpleFS.journal # nil (Options.EnableJournaling)
    host,        \* the host filesystem: absolute path -> node
    attrFiles,   \* .attributes/<hash(path)>.json: raw path -> attribute map
    journal,     \* content of .journal/fs.log: the entries appended so far
    jfile,       \* Journal.file: "open" or "nil"
    jmu,         \* Journal.mu: "free" or the method holding it across steps
    locks,       \* SimpleFS.locks: lock key -> state of its RWMutex
    hooks,       \* SimpleFS.hooks: HookKey -> registered callbacks, in order
    regLog,      \* history: the RegisterHook calls still in force, in call order
    stack,       \* call stack of the calling goroutine, innermost frame last
    hookTrace,   \* history: callbacks invoked since the current call began
    pre,         \* history: the state when the current top-level call began
    result,      \* outcome of the last completed top-level call
    original,    \* history: the files and attributes a journal was produced with
    resolved,    \* history: outcome of the last GetAbsolutePath call
    versioning,  \* SimpleFS.versioning
    maxVersions, \* SimpleFS.maxVersions
    versions,    \* .versions/<hash(path)>/ of each raw path, and the ids drawn
    lm,          \* SimpleFS.lockManager: the explicit lock manager and its callers
    threads,     \* the goroutines that call the facade or the journal concurrently
    hooksGuard,  \* SimpleFS.hooksGuard: state of the RWMutex of the hook table
    backups,     \* the rotated journal files: name suffix -> content
    clock        \* time.Now() in whole seconds, as Journal.Rotate formats it

vars == <<rootPath, journaling, host, attrFiles, journal, jfile, jmu, locks,
          hooks, regLog, stack, hookTrace, pre, result, original, resolved,
          versioning, maxVersions, versions, lm, threads, hooksGuard, backups,
          clock>>

----------------------------------------------------------------------------
(* Bounds of the model *)

\* longest input path, in components, that SpecPath enumerates
MaxSegs == 3
\* a top-level facade call is started only while the journal is shorter
MaxJournal == 2
\* RegisterHook is called only while fewer callbacks are registered
MaxHooks == 2
MaxVersions == 1

----------------------------------------------------------------------------
(* Values *)

Nil == "nil"

ErrEscape == "path attempts to escape the root directory"
ErrInvalidPath == "invalid path"
ErrNotExist == "ENOENT"
ErrNotDir == "ENOTDIR"
ErrIsDir == "EISDIR"
ErrNotEmpty == "ENOTEMPTY"
ErrInvalid == "os: invalid argument"

Last(s) == s[Len(s)]
Front(s) == SubSeq(s, 1, Len(s) - 1)

RECURSIVE SeqToSet(_)
SeqToSet(s) == IF s = <<>> THEN {} ELSE {Head(s)} \cup SeqToSet(Tail(s))

IsPrefix(a, b) == Len(a) <= Len(b) /\ SubSeq(b, 1, Len(a)) = a

RemoveKey(f, k) == [x \in DOMAIN f \ {k} |-> f[x]]

Put(f, k, v) == [x \in DOMAIN f \cup {k} |-> IF x = k THEN v ELSE f[x]]

----------------------------------------------------------------------------
(* path/filepath, on component sequences *)

\* filepath.Clean: drops empty and "." components, resolves "..", keeps a
\* leading ".." only on a path that is not rooted
RECURSIVE CleanSegs(_, _, _)
CleanSegs(rooted, segs, out) ==
    IF segs = <<>> THEN out
    ELSE LET s == Head(segs)
             rest == Tail(segs)
         IN  IF s = "" \/ s = "." THEN CleanSegs(rooted, rest, out)
             ELSE IF s = ".."
                  THEN IF out # <<>> /\ Last(out) # ".."
                       THEN CleanSegs(rooted, rest, Front(out))
                       ELSE IF rooted THEN CleanSegs(rooted, rest, out)
                            ELSE CleanSegs(rooted, rest, Append(out, ".."))
                  ELSE CleanSegs(rooted, rest, Append(out, s))

Clean(p) == [abs |-> p.abs, segs |-> CleanSegs(p.abs, p.segs, <<>>)]

\* filepath.Join(a, b): Clean(a + "/" + b)
Join(a, b) == Clean([abs |-> a.abs, segs |-> a.segs \o b.segs])

RECURSIVE CommonLen(_, _)
CommonLen(a, b) ==
    IF a = <<>> \/ b = <<>> \/ Head(a) # Head(b) THEN 0
    ELSE 1 + CommonLen(Tail(a), Tail(b))

\* filepath.Rel(base, targ) on two cleaned paths
Rel(base, targ) ==
    LET n == CommonLen(base.segs, targ.segs)
        up == Len(base.segs) - n
    IN  [err |-> IF base.abs # targ.abs THEN ErrInvalidPath ELSE Nil,
         segs |-> [i \in 1..up |-> ".."] \o SubSeq(targ.segs, n + 1, Len(targ.segs))]

BrokenEscapesRoot(rel) == rel = <<"..">>

\* rel == ".." || filepath.HasPrefix(rel, "../")
EscapesRoot(rel) == rel = <<"..">> \/ (Len(rel) > 1 /\ rel[1] = "..")

\* SimpleFS.fullPath
fullPath(root, path) ==
    LET cleanPath == Clean(path)
        full == Join([abs |-> TRUE, segs |-> root], cleanPath)
        rel == Rel([abs |-> TRUE, segs |-> root], full)
    IN  IF rel.err # Nil THEN [err |-> ErrInvalidPath, full |-> <<>>]
        ELSE IF EscapesRoot(rel.segs) THEN [err |-> ErrEscape, full |-> <<>>]
        ELSE [err |-> Nil, full |-> full.segs]

\* filepath.Dir of a cleaned absolute path
Dir(full) == IF full = <<>> THEN <<>> ELSE Front(full)

----------------------------------------------------------------------------
(* The host filesystem (package os) *)

DirNode == [kind |-> "dir"]
FileNode(d) == [kind |-> "file", data |-> d]

IsDirAt(h, fp) == fp \in DOMAIN h /\ h[fp].kind = "dir"
IsFileAt(h, fp) == fp \in DOMAIN h /\ h[fp].kind = "file"

Prefixes(fp) == {SubSeq(fp, 1, n) : n \in 0..Len(fp)}
ProperPrefixes(fp) == Prefixes(fp) \ {fp}

\* os.Stat
OsStat(h, fp) ==
    IF fp \in DOMAIN h THEN Nil
    ELSE IF \E a \in ProperPrefixes(fp) : IsFileAt(h, a) THEN ErrNotDir
    ELSE ErrNotExist

\* os.MkdirAll
MkdirAll(h, fp) ==
    IF \E a \in Prefixes(fp) : IsFileAt(h, a) THEN [err |-> ErrNotDir, h |-> h]
    ELSE [err |-> Nil,
          h |-> [x \in DOMAIN h \cup Prefixes(fp) |->
                    IF x \in DOMAIN h THEN h[x] ELSE DirNode]]

\* os.WriteFile / os.Create followed by a write
OsWriteFile(h, fp, data) ==
    IF IsDirAt(h, fp) THEN [err |-> ErrIsDir, h |-> h]
    ELSE IF ~IsDirAt(h, Dir(fp)) THEN [err |-> OsStat(h, fp), h |-> h]
    ELSE [err |-> Nil, h |-> Put(h, fp, FileNode(data))]

HasChildren(h, fp) == \E x \in DOMAIN h : x # fp /\ IsPrefix(fp, x)

\* os.Remove
OsRemove(h, fp) ==
    IF fp \notin DOMAIN h THEN [err |-> OsStat(h, fp), h |-> h]
    ELSE IF HasChildren(h, fp) THEN [err |-> ErrNotEmpty, h |-> h]
    ELSE [err |-> Nil, h |-> RemoveKey(h, fp)]

\* os.RemoveAll
OsRemoveAll(h, fp) ==
    IF fp \notin DOMAIN h
    THEN [err |-> IF OsStat(h, fp) = ErrNotDir THEN ErrNotDir ELSE Nil, h |-> h]
    ELSE [err |-> Nil, h |-> [x \in {y \in DOMAIN h : ~IsPrefix(fp, y)} |-> h[x]]]

\* os.Rename
OsRename(h, src, dst) ==
    IF src \notin DOMAIN h THEN [err |-> OsStat(h, src), h |-> h]
    ELSE IF ~IsDirAt(h, Dir(dst)) THEN [err |-> OsStat(h, dst), h |-> h]
    ELSE IF src = dst THEN [err |-> Nil, h |-> h]
    ELSE IF IsFileAt(h, src) /\ IsDirAt(h, dst) THEN [err |-> ErrIsDir, h |-> h]
    ELSE IF IsDirAt(h, src) /\ IsFileAt(h, dst) THEN [err |-> ErrNotDir, h |-> h]
    ELSE IF IsDirAt(h, src) /\ (HasChildren(h, dst) \/ IsPrefix(src, dst))
         THEN [err |-> ErrNotEmpty, h |-> h]
    ELSE LET moved == {x \in DOMAIN h : IsPrefix(src, x)}
             target(x) == dst \o SubSeq(x, Len(src) + 1, Len(x))
             kept == DOMAIN h \ moved
             dom == (kept \ {dst}) \cup {target(x) : x \in moved}
         IN  [err |-> Nil,
              h |-> [y \in dom |->
                        IF \E x \in moved : target(x) = y
                        THEN h[CHOOSE x \in moved : target(x) = y]
                        ELSE h[y]]]

----------------------------------------------------------------------------
(* The inputs the calling goroutine draws its arguments from *)

Rel_(segs) == [abs |-> FALSE, segs |-> segs]
Abs_(segs) == [abs |-> TRUE, segs |-> segs]

\* the root of the facade under Spec: /srv/data
Root == <<"srv", "data">>

\* the paths the caller passes under Spec: two that resolve under Root and
\* one that leaves it
InsidePaths == {Rel_(<<"a">>), Rel_(<<"d", "f">>)}
EscapePaths == {Rel_(<<"..", "x">>)}
PathInputs == InsidePaths \cup EscapePaths

NoPath == Rel_(<<>>)

\* the paths GetAbsolutePath is tried on: every relative and every rooted path
\* of at most MaxSegs components, each a name or ".."
PathSegs == {"a", ".."}

RECURSIVE SeqsUpTo(_, _)
SeqsUpTo(n, alphabet) ==
    IF n = 0 THEN {<<>>}
    ELSE LET shorter == SeqsUpTo(n - 1, alphabet)
         IN  shorter \cup {Append(q, x) : q \in shorter, x \in alphabet}

AllPaths == {[abs |-> b, segs |-> q] : b \in BOOLEAN, q \in SeqsUpTo(MaxSegs, PathSegs)}

Data == {"x"}
\* two contents, for the calls that overwrite a file
HookData == {"x", "y"}
\* the content of a file that os.Create has truncated and nothing was written to
Empty == ""

AttrKeys == {"k", "m"}
AttrValues == {<<"v">>}
NoAttrs == <<>>

\* the default permissions of WriteFile, 0644
DefaultMode == 420

----------------------------------------------------------------------------
(* The state as one record, so that a step is a function from state to state *)

S ==
    [rootPath |-> rootPath, journaling |-> journaling, host |-> host,
     attrFiles |-> attrFiles, journal |-> journal, jfile |-> jfile, jmu |-> jmu,
     locks |-> locks, hooks |-> hooks, regLog |-> regLog, stack |-> stack,
     hookTrace |-> hookTrace, pre |-> pre, result |-> result,
     original |-> original, resolved |-> resolved, versioning |-> versioning,
     maxVersions |-> maxVersions, versions |-> versions, lm |-> lm,
     threads |-> threads, hooksGuard |-> hooksGuard, backups |-> backups,
     clock |-> clock]

Commit(s) ==
    /\ rootPath' = s.rootPath
    /\ journaling' = s.journaling
    /\ host' = s.host
    /\ attrFiles' = s.attrFiles
    /\ journal' = s.journal
    /\ jfile' = s.jfile
    /\ jmu' = s.jmu
    /\ locks' = s.locks
    /\ hooks' = s.hooks
    /\ regLog' = s.regLog
    /\ stack' = s.stack
    /\ hookTrace' = s.hookTrace
    /\ pre' = s.pre
    /\ result' = s.result
    /\ original' = s.original
    /\ resolved' = s.resolved
    /\ versioning' = s.versioning
    /\ maxVersions' = s.maxVersions
    /\ versions' = s.versions
    /\ lm' = s.lm
    /\ threads' = s.threads
    /\ hooksGuard' = s.hooksGuard
    /\ backups' = s.backups
    /\ clock' = s.clock

----------------------------------------------------------------------------
(* Call frames *)

NoRet == [err |-> Nil, data |-> Empty, attrs |-> NoAttrs]

\* a frame of method op: its arguments, its locals and its position
Frame(op, path, src, data, mode, key, val) ==
    [op |-> op, pc |-> "start", path |-> path, src |-> src, data |-> data,
     mode |-> mode, key |-> key, val |-> val,
     full |-> <<>>,      \* fullPath of path
     full2 |-> <<>>,     \* fullPath of src
     held |-> <<>>,      \* locks whose release this frame has deferred
     todo |-> {},        \* what a loop of the frame has still to visit
     attrs |-> NoAttrs,  \* an attribute map held in a local
     fileState |-> <<>>, \* Recover's map from path to its latest entry
     ret |-> NoRet]      \* what the last callee returned

Top(s) == s.stack[Len(s.stack)]

WithTop(s, f) == [s EXCEPT !.stack = [s.stack EXCEPT ![Len(s.stack)] = f]]

Goto(s, pc) == WithTop(s, [Top(s) EXCEPT !.pc = pc])

Push(s, f) == [s EXCEPT !.stack = Append(s.stack, f)]

\* the frame waits for a mutex that nothing will release
Block(s) == Goto(s, "blocked")

----------------------------------------------------------------------------
(* sync.RWMutex and the lock registry *)

Unlocked == [w |-> FALSE, r |-> 0]

\* the registry key of the attribute file of a raw path:
\* rootPath/.attributes/<HashString(path)>.json
HashKey(root, path) ==
    root \o <<".attributes", IF path.abs THEN "/" ELSE "~">> \o path.segs

\* a registry that hands out a new mutex on every call
BrokenGetFileLock(s, k) == [s EXCEPT !.locks = Put(@, k, Unlocked)]

\* SimpleFS.getFileLock: the lock of a key, created on first use
getFileLock(s, k) ==
    IF k \in DOMAIN s.locks THEN s ELSE [s EXCEPT !.locks = Put(@, k, Unlocked)]

\* the deferred Unlock / RUnlock calls of a returning frame
RECURSIVE ReleaseAll(_, _)
ReleaseAll(lk, held) ==
    IF held = <<>> THEN lk
    ELSE LET h == Last(held)
             st == lk[h.key]
             st2 == IF h.mode = "w" THEN [st EXCEPT !.w = FALSE]
                    ELSE [st EXCEPT !.r = @ - 1]
         IN  ReleaseAll([lk EXCEPT ![h.key] = st2], Front(held))

\* getFileLock(k) followed by Lock(): granted when nobody holds the mutex
LockW(s, k, nextpc) ==
    LET s1 == getFileLock(s, k)
        st == s1.locks[k]
    IN  IF st.w \/ st.r > 0 THEN Block(s1)
        ELSE WithTop([s1 EXCEPT !.locks[k].w = TRUE],
                     [Top(s1) EXCEPT !.held = Append(@, [key |-> k, mode |-> "w"]),
                                     !.pc = nextpc])

\* getFileLock(k) followed by RLock(): granted when no writer holds the mutex
LockR(s, k, nextpc) ==
    LET s1 == getFileLock(s, k)
        st == s1.locks[k]
    IN  IF st.w THEN Block(s1)
        ELSE WithTop([s1 EXCEPT !.locks[k].r = @ + 1],
                     [Top(s1) EXCEPT !.held = Append(@, [key |-> k, mode |-> "r"]),
                                     !.pc = nextpc])

\* return from the top frame: run its deferred unlocks, hand the value to the
\* caller, or record the outcome of a top-level call
Return(s, r) ==
    LET f == Top(s)
        rest == Front(s.stack)
        s1 == [s EXCEPT !.locks = ReleaseAll(@, f.held)]
    IN  IF rest = <<>>
        THEN [s1 EXCEPT !.stack = <<>>,
                        !.result = [op |-> f.op, path |-> f.path, src |-> f.src,
                                    data |-> f.data, key |-> f.key, val |-> f.val,
                                    err |-> r.err, out |-> r.data, attrs |-> r.attrs]]
        ELSE [s1 EXCEPT !.stack = [rest EXCEPT ![Len(rest)].ret = r]]

ReturnErr(s, err) == Return(s, [NoRet EXCEPT !.err = err])

----------------------------------------------------------------------------
(* The journal *)

Entry(op, path, data, attrs) ==
    [Operation |-> op, Path |-> path, Data |-> data, Attributes |-> attrs]

BrokenLog(s, entry) == [err |-> Nil, s |-> s]

\* Journal.Log, called with j.mu free: Write and Sync on j.file; a nil file
\* makes Write fail
Log(s, entry) ==
    IF s.jfile = "nil" THEN [err |-> ErrInvalid, s |-> s]
    ELSE [err |-> Nil, s |-> [s EXCEPT !.journal = Append(@, entry)]]

----------------------------------------------------------------------------
(* The hook pipeline *)

OpTypes ==
    {"createDir", "writeFile", "readFile", "listDir", "deleteFile", "deleteDir",
     "copyFile", "moveFile", "setAttribute", "getAttribute", "getAllAttributes",
     "deleteAttribute", "createVersion", "getVersion", "listVersions"}

HookTypes == {"pre", "post"}

HookKey(op, typ) == [Op |-> op, Typ |-> typ]

\* the callbacks a caller may register: one that succeeds, two that fail
HookFuncs == {"hOk", "hErrA", "hErrB"}

\* what a callback returns each time it is called
HookReturn(h) ==
    IF h = "hErrA" THEN "errA" ELSE IF h = "hErrB" THEN "errB" ELSE Nil

\* the loop of executeHooks from position i on
RECURSIVE RunHooks(_, _, _)
RunHooks(hs, i, invoked) ==
    IF i > Len(hs) THEN [err |-> Nil, invoked |-> invoked]
    ELSE IF HookReturn(hs[i]) # Nil
         THEN [err |-> HookReturn(hs[i]), invoked |-> Append(invoked, hs[i])]
         ELSE RunHooks(hs, i + 1, Append(invoked, hs[i]))

\* SimpleFS.executeHooks
executeHooks(s, typ, op) ==
    LET key == HookKey(op, typ)
    IN  IF key \notin DOMAIN s.hooks THEN [err |-> Nil, s |-> s]
        ELSE LET run == RunHooks(s.hooks[key], 1, <<>>)
                 called == [i \in 1..Len(run.invoked) |->
                               [Op |-> op, Typ |-> typ, hook |-> run.invoked[i]]]
             IN  [err |-> run.err,
                  s |-> [s EXCEPT !.hookTrace = @ \o called]]

----------------------------------------------------------------------------
(* Steps shared by the facade methods *)

Running(op) == stack # <<>> /\ Last(stack).op = op /\ Last(stack).pc # "blocked"

W(k) == [key |-> k, mode |-> "w"]
R(k) == [key |-> k, mode |-> "r"]

\* the Lock / RLock calls of a method, in the order the method makes them
RECURSIVE Acquire(_, _, _)
Acquire(s, reqs, nextpc) ==
    IF reqs = <<>> THEN Goto(s, nextpc)
    ELSE LET s1 == IF Head(reqs).mode = "w" THEN LockW(s, Head(reqs).key, nextpc)
                   ELSE LockR(s, Head(reqs).key, nextpc)
         IN  IF Top(s1).pc = "blocked" THEN s1 ELSE Acquire(s1, Tail(reqs), nextpc)

BrokenPreHooks(s, op) ==
    IF Top(s).pc = "blocked" THEN s ELSE executeHooks(s, "pre", op).s

BrokenPostHooks(s, op) == ReturnErr(executeHooks(s, "post", op).s, Nil)

\* executeHooks(HookTypePre, ctx) once the locks are held: an error returns,
\* success leaves the frame at nextpc
PreHooks(s, op) ==
    IF Top(s).pc = "blocked" THEN s
    ELSE LET h == executeHooks(s, "pre", op)
         IN  IF h.err # Nil THEN ReturnErr(h.s, h.err) ELSE h.s

\* return fs.executeHooks(HookTypePost, ctx)
PostHooks(s, op) ==
    LET h == executeHooks(s, "post", op)
    IN  ReturnErr(h.s, h.err)

ErrLog == "failed to log"

BrokenLogStep(s, entry, nextpc) ==
    IF ~s.journaling THEN Goto(s, nextpc)
    ELSE IF s.jmu # "free" THEN Block(s)
    ELSE Goto(Log(s, entry).s, nextpc)

\* if fs.journal != nil { err := fs.journal.Log(entry); if err != nil { return } }
\* Log blocks on j.mu while Recover holds it
LogStep(s, entry, nextpc) ==
    IF ~s.journaling THEN Goto(s, nextpc)
    ELSE IF s.jmu # "free" THEN Block(s)
    ELSE LET l == Log(s, entry)
         IN  IF l.err # Nil THEN ReturnErr(l.s, ErrLog) ELSE Goto(l.s, nextpc)

\* the decimal digits of n: fmt.Sprintf("%d", n)
RECURSIVE DecDigits(_)
DecDigits(n) ==
    LET d == <<"0", "1", "2", "3", "4", "5", "6", "7", "8", "9">>[(n % 10) + 1]
    IN  IF n < 10 THEN <<d>> ELSE Append(DecDigits(n \div 10), d)

----------------------------------------------------------------------------
(* File versioning: the records under .versions/<hash(path)>/ *)

ErrNoVersioning == "versioning is not enabled"
ErrFileInfo == "failed to get file info"
ErrVersionDir == "cannot version a directory"
ErrReadFile == "failed to read file"
ErrPrune == "failed to prune old versions"
ErrVersionNotFound == "version not found"
ErrCreateVersion == "failed to create version"
ErrGetVersion == "failed to get version"
ErrRestoreWrite == "failed to write file"
ErrRestoreAttr == "failed to restore attribute"

\* the values of uuid.New().String(), in the order they are drawn
VersionIDs == <<"v1", "v2", "v3", "v4", "v5">>

\* len(data)
Size(data) == IF data = Empty THEN 0 ELSE 1

VersionInfo(id, path, createdAt, data, attrs) ==
    [VersionID |-> id, Path |-> path, CreatedAt |-> createdAt,
     Size |-> Size(data), Attributes |-> attrs]

\* <id>.json and <id>.data of one version
Record(info, data) == [info |-> info, data |-> data]

\* an empty .versions directory, no identifier drawn and the clock at zero
NoVersions == [dirs |-> <<>>, issued |-> 0]

\* the version directory of a path: version identifier -> record
VersionDir(s, path) ==
    IF path \in DOMAIN s.versions.dirs THEN s.versions.dirs[path] ELSE <<>>

\* SimpleFS.FileExists
FileExists(s, path) ==
    LET fp == fullPath(s.rootPath, path)
    IN  fp.err = Nil /\ OsStat(s.host, fp.full) = Nil

\* sort.Slice(versions, CreatedAt.After): newest first
RECURSIVE NewestFirst(_)
NewestFirst(infos) ==
    IF infos = {} THEN <<>>
    ELSE LET newest == CHOOSE v \in infos : \A u \in infos : u.CreatedAt <= v.CreatedAt
         IN  <<newest>> \o NewestFirst(infos \ {newest})

\* SimpleFS.ListVersions: the error, the state after the hooks and the listing
ListVersionsOutcome(s, path) ==
    LET pre_ == executeHooks(s, "pre", "listVersions")
        dir == VersionDir(pre_.s, path)
        listing == NewestFirst({dir[id].info : id \in DOMAIN dir})
        post == executeHooks(pre_.s, "post", "listVersions")
    IN  IF ~s.versioning THEN [err |-> ErrNoVersioning, s |-> s, listing |-> <<>>]
        ELSE IF pre_.err # Nil THEN [err |-> pre_.err, s |-> pre_.s, listing |-> <<>>]
        ELSE IF path \notin DOMAIN s.versions.dirs
             THEN [err |-> Nil, s |-> pre_.s, listing |-> <<>>]
        ELSE IF post.err # Nil THEN [err |-> post.err, s |-> post.s, listing |-> <<>>]
        ELSE [err |-> Nil, s |-> post.s, listing |-> listing]

\* SimpleFS.GetVersion: the error, the state after the hooks, the data and
\* the metadata of the version
GetVersionOutcome(s, path, id) ==
    LET pre_ == executeHooks(s, "pre", "getVersion")
        dir == VersionDir(pre_.s, path)
        post == executeHooks(pre_.s, "post", "getVersion")
        none == [err |-> Nil, s |-> s, data |-> Empty, info |-> <<>>]
    IN  IF ~s.versioning THEN [none EXCEPT !.err = ErrNoVersioning]
        ELSE IF pre_.err # Nil THEN [none EXCEPT !.err = pre_.err, !.s = pre_.s]
        ELSE IF id \notin DOMAIN dir
             THEN [none EXCEPT !.err = ErrVersionNotFound, !.s = pre_.s]
        ELSE IF post.err # Nil THEN [none EXCEPT !.err = post.err, !.s = post.s]
        ELSE [err |-> Nil, s |-> post.s, data |-> dir[id].data, info |-> dir[id].info]

\* SimpleFS.DeleteVersion
DeleteVersion(s, path, id) ==
    IF ~s.versioning THEN [err |-> ErrNoVersioning, s |-> s]
    ELSE IF id \notin DOMAIN VersionDir(s, path)
    THEN [err |-> ErrVersionNotFound, s |-> s]
    ELSE [err |-> Nil,
          s |-> [s EXCEPT !.versions.dirs[path] = RemoveKey(@, id)]]

\* the loop of pruneVersions: DeleteVersion on listing[i], from the last index
\* down to index stop
RECURSIVE PruneLoop(_, _, _, _, _)
PruneLoop(s, path, listing, i, stop) ==
    IF i < stop THEN [err |-> Nil, s |-> s]
    ELSE LET d == DeleteVersion(s, path, listing[i].VersionID)
         IN  IF d.err # Nil THEN d ELSE PruneLoop(d.s, path, listing, i - 1, stop)

\* pruning that removes nothing
BrokenPruneVersions(s, path) == [err |-> Nil, s |-> s]

\* SimpleFS.pruneVersions
pruneVersions(s, path) ==
    LET l == ListVersionsOutcome(s, path)
        n == Len(l.listing)
        toDelete == n - s.maxVersions
    IN  IF l.err # Nil THEN [err |-> l.err, s |-> l.s]
        ELSE IF n <= s.maxVersions THEN [err |-> Nil, s |-> l.s]
        ELSE PruneLoop(l.s, path, l.listing, n, n - toDelete + 1)

\* SimpleFS.createVersion, called by the mutating methods while they hold
\* the locks of the path
createVersionStep(s) ==
    LET f == Top(s)
    IN  CASE f.pc = "start" ->
               LET h == executeHooks(s, "pre", "createVersion")
                   fp == fullPath(s.rootPath, f.path)
               IN  IF ~s.versioning THEN ReturnErr(s, ErrNoVersioning)
                   ELSE IF h.err # Nil THEN ReturnErr(h.s, h.err)
                   ELSE IF fp.err # Nil THEN ReturnErr(h.s, fp.err)
                   ELSE IF OsStat(s.host, fp.full) # Nil THEN ReturnErr(h.s, ErrFileInfo)
                   ELSE IF IsDirAt(s.host, fp.full) THEN ReturnErr(h.s, ErrVersionDir)
                   ELSE Push(WithTop(h.s, [f EXCEPT !.full = fp.full, !.pc = "read"]),
                             Frame("ReadFile", f.path, NoPath, Empty, DefaultMode,
                                   "", <<>>))
          [] f.pc = "read" ->
               IF f.ret.err # Nil THEN ReturnErr(s, ErrReadFile)
               ELSE Push(WithTop(s, [f EXCEPT !.data = f.ret.data, !.pc = "store"]),
                         Frame("GetAllAttributes", f.path, NoPath, Empty, DefaultMode,
                               "", <<>>))
          [] f.pc = "store" ->
               LET n == s.versions.issued + 1
                   id == VersionIDs[n]
                   info == VersionInfo(id, f.path, n, f.data, f.ret.attrs)
                   s1 == [s EXCEPT
                             !.versions.issued = n,
                             !.versions.dirs =
                                 Put(@, f.path,
                                     Put(VersionDir(s, f.path), id, Record(info, f.data)))]
                   p == IF s.maxVersions > 0 THEN pruneVersions(s1, f.path)
                        ELSE [err |-> Nil, s |-> s1]
               IN  IF p.err # Nil THEN ReturnErr(p.s, ErrPrune)
                   ELSE PostHooks(p.s, "createVersion")

createVersion == Running("createVersion") /\ Commit(createVersionStep(S))

----------------------------------------------------------------------------
(* SimpleFS.CreateDir *)

CreateDirStep(s) ==
    LET f == Top(s)
    IN  CASE f.pc = "start" ->
               LET fp == fullPath(s.rootPath, f.path)
               IN  IF fp.err # Nil THEN ReturnErr(s, fp.err)
                   ELSE PreHooks(Acquire(WithTop(s, [f EXCEPT !.full = fp.full]),
                                         <<W(Dir(fp.full))>>, "log"),
                                 "createDir")
          [] f.pc = "log" ->
               LogStep(s, Entry("mkdir", f.path, Empty, NoAttrs), "apply")
          [] f.pc = "apply" ->
               LET m == MkdirAll(s.host, f.full)
               IN  IF m.err # Nil THEN ReturnErr(s, m.err)
                   ELSE PostHooks([s EXCEPT !.host = m.h], "createDir")

CreateDir == Running("CreateDir") /\ Commit(CreateDirStep(S))

----------------------------------------------------------------------------
(* SimpleFS.WriteFile, SimpleFS.WriteFileWithMode *)

ErrParentDirs == "failed to create parent directories"

\* if fs.versioning && exists { if err := fs.createVersion(path) ... }, placed
\* after the pre-hooks of a method: s is the state before the locks and the
\* hooks, s1 the state after them
Versioned(s, s1, exists) ==
    IF Len(s1.stack) < Len(s.stack) \/ Top(s1).pc = "blocked" THEN s1
    ELSE IF s1.versioning /\ exists
    THEN Push(Goto(s1, "versioned"),
              Frame("createVersion", Top(s1).path, NoPath, Empty, DefaultMode, "", <<>>))
    ELSE s1

WriteFileWithModeStep(s) ==
    LET f == Top(s)
    IN  CASE f.pc = "start" ->
               LET fp == fullPath(s.rootPath, f.path)
                   m == MkdirAll(s.host, Dir(fp.full))
               IN  IF fp.err # Nil THEN ReturnErr(s, fp.err)
                   ELSE IF m.err # Nil THEN ReturnErr(s, ErrParentDirs)
                   ELSE Versioned(s, PreHooks(Acquire(WithTop([s EXCEPT !.host = m.h],
                                                              [f EXCEPT !.full = fp.full]),
                                                      <<W(fp.full)>>, "log"),
                                              "writeFile"),
                                  FileExists([s EXCEPT !.host = m.h], f.path))
          [] f.pc = "versioned" ->
               IF f.ret.err # Nil THEN ReturnErr(s, ErrCreateVersion)
               ELSE LogStep(s, Entry("write", f.path, f.data,
                                     "mode" :> DecDigits(f.mode)), "apply")
          [] f.pc = "log" ->
               LogStep(s, Entry("write", f.path, f.data, "mode" :> DecDigits(f.mode)),
                       "apply")
          [] f.pc = "apply" ->
               LET w == OsWriteFile(s.host, f.full, f.data)
               IN  IF w.err # Nil THEN ReturnErr(s, w.err)
                   ELSE PostHooks([s EXCEPT !.host = w.h], "writeFile")

WriteFileWithMode == Running("WriteFileWithMode") /\ Commit(WriteFileWithModeStep(S))

----------------------------------------------------------------------------
(* SimpleFS.ReadFile *)

\* os.ReadFile
\* a read that hands back no bytes of a file that has some
BrokenOsReadFile(h, fp) ==
    IF IsFileAt(h, fp) THEN [err |-> Nil, data |-> Empty]
    ELSE IF IsDirAt(h, fp) THEN [err |-> ErrIsDir, data |-> Empty]
    ELSE [err |-> OsStat(h, fp), data |-> Empty]

OsReadFile(h, fp) ==
    IF IsFileAt(h, fp) THEN [err |-> Nil, data |-> h[fp].data]
    ELSE IF IsDirAt(h, fp) THEN [err |-> ErrIsDir, data |-> Empty]
    ELSE [err |-> OsStat(h, fp), data |-> Empty]

\* ReadFile refusing every path while the explicit lock table has an entry
BrokenReadFileStep(s) ==
    LET r == OsReadFile(s.host, fullPath(s.rootPath, Top(s).path).full)
    IN  IF s.lm.locks # <<>> THEN ReturnErr(s, ErrInvalid)
        ELSE Return(s, [NoRet EXCEPT !.err = r.err, !.data = r.data])

ReadFileStep(s) ==
    LET f == Top(s)
    IN  CASE f.pc = "start" ->
               LET fp == fullPath(s.rootPath, f.path)
               IN  IF fp.err # Nil THEN ReturnErr(s, fp.err)
                   ELSE PreHooks(Acquire(WithTop(s, [f EXCEPT !.full = fp.full]),
                                         <<R(fp.full)>>, "apply"),
                                 "readFile")
          [] f.pc = "apply" ->
               LET r == OsReadFile(s.host, f.full)
                   h == executeHooks(s, "post", "readFile")
               IN  IF r.err # Nil THEN ReturnErr(s, r.err)
                   ELSE IF h.err # Nil THEN ReturnErr(h.s, h.err)
                   ELSE Return(h.s, [NoRet EXCEPT !.data = r.data])

ReadFile == Running("ReadFile") /\ Commit(ReadFileStep(S))

----------------------------------------------------------------------------
(* SimpleFS.DeleteFile, SimpleFS.DeleteDir *)

ErrDeleteIsDir == "cannot delete directory with DeleteFile, use DeleteDir instead"

DeleteFileStep(s) ==
    LET f == Top(s)
    IN  CASE f.pc = "start" ->
               LET fp == fullPath(s.rootPath, f.path)
               IN  IF fp.err # Nil THEN ReturnErr(s, fp.err)
                   ELSE IF OsStat(s.host, fp.full) # Nil
                        THEN ReturnErr(s, OsStat(s.host, fp.full))
                   ELSE IF IsDirAt(s.host, fp.full) THEN ReturnErr(s, ErrDeleteIsDir)
                   ELSE Versioned(s, PreHooks(Acquire(WithTop(s, [f EXCEPT !.full = fp.full]),
                                                      <<W(fp.full), W(Dir(fp.full))>>, "log"),
                                              "deleteFile"),
                                  TRUE)
          [] f.pc = "versioned" ->
               IF f.ret.err # Nil THEN ReturnErr(s, ErrCreateVersion)
               ELSE LogStep(s, Entry("delete", f.path, Empty, NoAttrs), "apply")
          [] f.pc = "log" ->
               LogStep(s, Entry("delete", f.path, Empty, NoAttrs), "apply")
          [] f.pc = "apply" ->
               LET r == OsRemove(s.host, f.full)
               IN  IF r.err # Nil THEN ReturnErr(s, r.err)
                   ELSE PostHooks([s EXCEPT !.host = r.h], "deleteFile")

DeleteFile == Running("DeleteFile") /\ Commit(DeleteFileStep(S))

DeleteDirStep(s) ==
    LET f == Top(s)
    IN  CASE f.pc = "start" ->
               LET fp == fullPath(s.rootPath, f.path)
               IN  IF fp.err # Nil THEN ReturnErr(s, fp.err)
                   ELSE PreHooks(Acquire(WithTop(s, [f EXCEPT !.full = fp.full]),
                                         <<W(fp.full), W(Dir(fp.full))>>, "log"),
                                 "deleteDir")
          [] f.pc = "log" ->
               LogStep(s, Entry("delete", f.path, Empty, NoAttrs), "apply")
          [] f.pc = "apply" ->
               LET r == OsRemoveAll(s.host, f.full)
               IN  IF r.err # Nil THEN ReturnErr(s, r.err)
                   ELSE PostHooks([s EXCEPT !.host = r.h], "deleteDir")

DeleteDir == Running("DeleteDir") /\ Commit(DeleteDirStep(S))

----------------------------------------------------------------------------
(* Extended attributes *)

AttrDir(root) == root \o <<".attributes">>

ErrNoFile == "file does not exist"
ErrNoAttrs == "no attributes found"
ErrNoAttr == "attribute does not exist"
ErrAttrDir == "failed to create attributes directory"

\* SimpleFS.GetAllAttributes
GetAllAttributesStep(s) ==
    LET f == Top(s)
    IN  CASE f.pc = "start" ->
               IF f.path \notin DOMAIN s.attrFiles THEN Return(s, NoRet)
               ELSE PreHooks(Acquire(s, <<R(HashKey(s.rootPath, f.path))>>, "apply"),
                             "getAllAttributes")
          [] f.pc = "apply" ->
               LET h == executeHooks(s, "post", "getAllAttributes")
               IN  IF f.path \notin DOMAIN s.attrFiles THEN ReturnErr(s, ErrNotExist)
                   ELSE IF h.err # Nil THEN ReturnErr(h.s, h.err)
                   ELSE Return(h.s, [NoRet EXCEPT !.attrs = s.attrFiles[f.path]])

GetAllAttributes == Running("GetAllAttributes") /\ Commit(GetAllAttributesStep(S))

\* SimpleFS.SetAttribute
SetAttributeStep(s) ==
    LET f == Top(s)
    IN  CASE f.pc = "start" ->
               LET fp == fullPath(s.rootPath, f.path)
                   m == MkdirAll(s.host, AttrDir(s.rootPath))
                   old == IF f.path \in DOMAIN s.attrFiles THEN s.attrFiles[f.path]
                          ELSE NoAttrs
               IN  IF fp.err # Nil THEN ReturnErr(s, fp.err)
                   ELSE IF OsStat(s.host, fp.full) = ErrNotExist THEN ReturnErr(s, ErrNoFile)
                   ELSE IF m.err # Nil THEN ReturnErr(s, ErrAttrDir)
                   ELSE PreHooks(Acquire(WithTop([s EXCEPT !.host = m.h],
                                                 [f EXCEPT !.full = fp.full,
                                                           !.attrs = Put(old, f.key, f.val)]),
                                         <<W(HashKey(s.rootPath, f.path))>>, "log"),
                                 "setAttribute")
          [] f.pc = "log" ->
               LogStep(s, Entry("setattr", f.path, Empty, f.key :> f.val), "apply")
          [] f.pc = "apply" ->
               PostHooks([s EXCEPT !.attrFiles = Put(@, f.path, f.attrs)], "setAttribute")

SetAttribute == Running("SetAttribute") /\ Commit(SetAttributeStep(S))

\* SimpleFS.DeleteAttribute
DeleteAttributeStep(s) ==
    LET f == Top(s)
    IN  CASE f.pc = "start" ->
               LET s1 == Acquire(s, <<W(HashKey(s.rootPath, f.path))>>, "log")
                   h == executeHooks(s1, "pre", "deleteAttribute")
                   attrs == s.attrFiles[f.path]
                   left == RemoveKey(attrs, f.key)
               IN  IF Top(s1).pc = "blocked" THEN s1
                   ELSE IF f.path \notin DOMAIN s.attrFiles THEN ReturnErr(s1, ErrNoAttrs)
                   ELSE IF h.err # Nil THEN ReturnErr(h.s, h.err)
                   ELSE IF f.key \notin DOMAIN attrs THEN ReturnErr(h.s, ErrNoAttr)
                   ELSE IF left = NoAttrs
                        THEN PostHooks([h.s EXCEPT !.attrFiles = RemoveKey(@, f.path)],
                                       "deleteAttribute")
                   ELSE WithTop(h.s, [Top(h.s) EXCEPT !.attrs = left])
          [] f.pc = "log" ->
               LogStep(s, Entry("deleteattr", f.path, Empty, f.key :> <<>>), "apply")
          [] f.pc = "apply" ->
               PostHooks([s EXCEPT !.attrFiles = Put(@, f.path, f.attrs)],
                         "deleteAttribute")

DeleteAttribute == Running("DeleteAttribute") /\ Commit(DeleteAttributeStep(S))

----------------------------------------------------------------------------
(* SimpleFS.CopyFile, SimpleFS.MoveFile *)

NoChoice == "-"

\* the keys a `for k, v := range attrs` loop may visit next (Go leaves the
\* order of a map iteration unspecified)
Choices(s) ==
    IF Top(s).pc = "setattrs" /\ Top(s).todo # {} THEN Top(s).todo ELSE {NoChoice}

\* one round of `for k, v := range attrs { fs.SetAttribute(dst, k, v) }`,
\* followed by the post-hooks once the map is exhausted
SetAttrsLoop(s, k, op) ==
    LET f == Top(s)
    IN  IF f.todo = {} THEN PostHooks(s, op)
        ELSE Push(WithTop(s, [f EXCEPT !.todo = @ \ {k}]),
                  Frame("SetAttribute", f.path, NoPath, Empty, DefaultMode, k, f.attrs[k]))

CopyFileStep(s, k) ==
    LET f == Top(s)
    IN  CASE f.pc = "start" ->
               LET sp == fullPath(s.rootPath, f.src)
                   dp == fullPath(s.rootPath, f.path)
               IN  IF sp.err # Nil THEN ReturnErr(s, sp.err)
                   ELSE IF dp.err # Nil THEN ReturnErr(s, dp.err)
                   ELSE PreHooks(Acquire(WithTop(s, [f EXCEPT !.full2 = sp.full,
                                                              !.full = dp.full]),
                                         <<R(sp.full), W(dp.full)>>, "apply"),
                                 "copyFile")
          [] f.pc = "apply" ->
               LET m == MkdirAll(s.host, Dir(f.full))
                   c == OsWriteFile(m.h, f.full, Empty)
                   w == OsWriteFile(m.h, f.full, s.host[f.full2].data)
               IN  IF OsStat(s.host, f.full2) # Nil THEN ReturnErr(s, OsStat(s.host, f.full2))
                   ELSE IF m.err # Nil THEN ReturnErr(s, ErrParentDirs)
                   ELSE IF c.err # Nil THEN ReturnErr([s EXCEPT !.host = m.h], c.err)
                   ELSE IF IsDirAt(s.host, f.full2)
                        THEN ReturnErr([s EXCEPT !.host = c.h], ErrIsDir)
                   ELSE Push(Goto([s EXCEPT !.host = w.h], "attrs"),
                             Frame("GetAllAttributes", f.src, NoPath, Empty, DefaultMode,
                                   "", <<>>))
          [] f.pc = "attrs" ->
               IF f.ret.err = Nil /\ f.ret.attrs # NoAttrs
               THEN WithTop(s, [f EXCEPT !.attrs = f.ret.attrs,
                                         !.todo = DOMAIN f.ret.attrs,
                                         !.pc = "setattrs"])
               ELSE PostHooks(s, "copyFile")
          [] f.pc = "setattrs" -> SetAttrsLoop(s, k, "copyFile")

CopyFile == Running("CopyFile") /\ \E k \in Choices(S) : Commit(CopyFileStep(S, k))

ErrReadSource == "failed to read source file for move"

MoveFileStep(s, k) ==
    LET f == Top(s)
    IN  CASE f.pc = "start" ->
               LET sp == fullPath(s.rootPath, f.src)
                   dp == fullPath(s.rootPath, f.path)
                   s1 == PreHooks(Acquire(WithTop(s, [f EXCEPT !.full2 = sp.full,
                                                               !.full = dp.full]),
                                          <<W(sp.full), W(dp.full),
                                            W(Dir(sp.full)), W(Dir(dp.full))>>, "log1"),
                                  "moveFile")
                   m == MkdirAll(s1.host, Dir(dp.full))
               IN  IF sp.err # Nil THEN ReturnErr(s, sp.err)
                   ELSE IF dp.err # Nil THEN ReturnErr(s, dp.err)
                   ELSE IF Len(s1.stack) < Len(s.stack) \/ Top(s1).pc = "blocked" THEN s1
                   ELSE IF m.err # Nil THEN ReturnErr(s1, m.err)
                   ELSE Push([s1 EXCEPT !.host = m.h],
                             Frame("GetAllAttributes", f.src, NoPath, Empty, DefaultMode,
                                   "", <<>>))
          [] f.pc = "log1" ->
               LET s1 == WithTop(s, [f EXCEPT !.attrs = f.ret.attrs])
                   s2 == LogStep(s1, Entry("delete", f.src, Empty, NoAttrs), "log2")
               IN  IF ~s.journaling THEN Goto(s1, "apply")
                   ELSE IF Len(s2.stack) < Len(s.stack) \/ Top(s2).pc = "blocked" THEN s2
                   ELSE Push(s2, Frame("ReadFile", f.src, NoPath, Empty, DefaultMode,
                                       "", <<>>))
          [] f.pc = "log2" ->
               IF f.ret.err # Nil THEN ReturnErr(s, ErrReadSource)
               ELSE LogStep(s, Entry("write", f.path, f.ret.data, f.attrs), "apply")
          [] f.pc = "apply" ->
               LET r == OsRename(s.host, f.full2, f.full)
               IN  IF r.err # Nil THEN ReturnErr(s, r.err)
                   ELSE WithTop([s EXCEPT !.host = r.h],
                                [f EXCEPT !.todo = DOMAIN f.attrs, !.pc = "setattrs"])
          [] f.pc = "setattrs" -> SetAttrsLoop(s, k, "moveFile")

MoveFile == Running("MoveFile") /\ \E k \in Choices(S) : Commit(MoveFileStep(S, k))

----------------------------------------------------------------------------
(* SimpleFS.Stat, SimpleFS.ListDir *)

StatStep(s) ==
    LET f == Top(s)
    IN  CASE f.pc = "start" ->
               LET fp == fullPath(s.rootPath, f.path)
               IN  IF fp.err # Nil THEN ReturnErr(s, fp.err)
                   ELSE IF OsStat(s.host, fp.full) # Nil
                        THEN ReturnErr(s, OsStat(s.host, fp.full))
                   ELSE Push(Goto(WithTop(s, [f EXCEPT !.full = fp.full]), "attrs"),
                             Frame("GetAllAttributes", f.path, NoPath, Empty, DefaultMode,
                                   "", <<>>))
          [] f.pc = "attrs" -> Return(s, [NoRet EXCEPT !.attrs = f.ret.attrs])

Stat == Running("Stat") /\ Commit(StatStep(S))

\* the names os.ReadDir returns, without the three hidden directories
Hidden == {".journal", ".attributes", ".versions"}

Entries(h, fp) ==
    {x[Len(x)] : x \in {y \in DOMAIN h : Len(y) = Len(fp) + 1 /\ IsPrefix(fp, y)}} \ Hidden

ListChoices(s) ==
    IF Top(s).pc = "entries" /\ Top(s).todo # {} THEN Top(s).todo ELSE {NoChoice}

ListDirStep(s, name) ==
    LET f == Top(s)
    IN  CASE f.pc = "start" ->
               LET fp == fullPath(s.rootPath, f.path)
               IN  IF fp.err # Nil THEN ReturnErr(s, fp.err)
                   ELSE PreHooks(Acquire(WithTop(s, [f EXCEPT !.full = fp.full]),
                                         <<R(fp.full)>>, "apply"),
                                 "listDir")
          [] f.pc = "apply" ->
               IF ~IsDirAt(s.host, f.full)
               THEN ReturnErr(s, IF IsFileAt(s.host, f.full) THEN ErrNotDir
                                 ELSE OsStat(s.host, f.full))
               ELSE WithTop(s, [f EXCEPT !.todo = Entries(s.host, f.full),
                                         !.pc = "entries"])
          [] f.pc = "entries" ->
               IF f.todo = {} THEN PostHooks(s, "listDir")
               ELSE Push(WithTop(s, [f EXCEPT !.todo = @ \ {name}]),
                         Frame("GetAllAttributes",
                               [abs |-> f.path.abs,
                                segs |-> Clean([abs |-> f.path.abs,
                                                segs |-> Append(f.path.segs, name)]).segs],
                               NoPath, Empty, DefaultMode, "", <<>>))

ListDir == Running("ListDir") /\ \E n \in ListChoices(S) : Commit(ListDirStep(S, n))

----------------------------------------------------------------------------
(* SimpleFS.Close, SimpleFS.Recover *)

\* Journal.Close
CloseStep(s) ==
    IF ~s.journaling THEN ReturnErr(s, Nil)
    ELSE IF s.jmu # "free" THEN Block(s)
    ELSE ReturnErr([s EXCEPT !.jfile = "nil"], Nil)

Close == Running("Close") /\ Commit(CloseStep(S))

\* fileState[entry.Path] = entry, for every entry in file order
RECURSIVE LastEntries(_, _)
LastEntries(entries, fileState) ==
    IF entries = <<>> THEN fileState
    ELSE LastEntries(Tail(entries), Put(fileState, Head(entries).Path, Head(entries)))

\* JournalEntry.IsDir
IsDir(e) == e.Data = Empty /\ e.Operation = "mkdir"

DigitValue(c) ==
    CASE c = "0" -> 0 [] c = "1" -> 1 [] c = "2" -> 2 [] c = "3" -> 3 [] c = "4" -> 4
      [] c = "5" -> 5 [] c = "6" -> 6 [] c = "7" -> 7 [] c = "8" -> 8 [] c = "9" -> 9
      [] OTHER -> 10

\* fmt.Sscanf(modeStr, "%o", &modeVal): the leading octal digits, read in base 8
RECURSIVE ScanOctal(_, _)
ScanOctal(digits, acc) ==
    IF digits = <<>> \/ DigitValue(Head(digits)) > 7 THEN acc
    ELSE ScanOctal(Tail(digits), acc * 8 + DigitValue(Head(digits)))

\* the mode Recover passes to WriteFileWithMode for a "write" entry
ReplayMode(e) ==
    IF "mode" \in DOMAIN e.Attributes /\ ScanOctal(e.Attributes["mode"], 0) > 0
    THEN ScanOctal(e.Attributes["mode"], 0)
    ELSE DefaultMode

ErrNoJournal == "journaling is not enabled"

RecoverChoices(s) ==
    IF Top(s).pc = "replay" /\ Top(s).todo # {} THEN Top(s).todo
    ELSE IF Top(s).pc = "setattr" /\ Top(s).attrs # NoAttrs THEN DOMAIN Top(s).attrs
    ELSE {NoChoice}

\* the primitive Recover calls for the retained entry of a path
ReplayCall(path, e) ==
    CASE e.Operation = "write" ->
           Frame("WriteFileWithMode", path, NoPath, e.Data, ReplayMode(e), "", <<>>)
      [] e.Operation = "mkdir" ->
           Frame("CreateDir", path, NoPath, Empty, DefaultMode, "", <<>>)
      [] e.Operation = "delete" /\ IsDir(e) ->
           Frame("DeleteDir", path, NoPath, Empty, DefaultMode, "", <<>>)
      [] e.Operation = "delete" /\ ~IsDir(e) ->
           Frame("DeleteFile", path, NoPath, Empty, DefaultMode, "", <<>>)

\* SimpleFS.Recover and Journal.Recover; c is the map key the range loop at
\* hand visits next
RecoverStep(s, c) ==
    LET f == Top(s)
    IN  CASE f.pc = "start" ->
               LET fileState == LastEntries(s.journal, <<>>)
               IN  IF ~s.journaling THEN ReturnErr(s, ErrNoJournal)
                   ELSE IF s.jmu # "free" THEN Block(s)
                   ELSE WithTop([s EXCEPT !.jmu = "Recover", !.jfile = "nil"],
                                [f EXCEPT !.fileState = fileState,
                                          !.todo = DOMAIN fileState,
                                          !.pc = "replay"])
          [] f.pc = "replay" ->
               IF f.todo = {}
               THEN ReturnErr([s EXCEPT !.jfile = "open", !.jmu = "free"], Nil)
               ELSE LET e == f.fileState[c]
                        s1 == WithTop(s, [f EXCEPT !.todo = @ \ {c}])
                    IN  IF e.Operation \in {"write", "mkdir", "delete"}
                        THEN Push(s1, ReplayCall(c, e))
                        ELSE IF e.Operation = "setattr"
                        THEN WithTop(s1, [Top(s1) EXCEPT !.path = c,
                                                         !.attrs = e.Attributes,
                                                         !.pc = "setattr"])
                        ELSE s1
          [] f.pc = "setattr" ->
               IF f.attrs = NoAttrs THEN Goto(s, "replay")
               ELSE Push(WithTop(s, [f EXCEPT !.attrs = RemoveKey(@, c)]),
                         Frame("SetAttribute", f.path, NoPath, Empty, DefaultMode,
                               c, f.attrs[c]))

Recover == Running("Recover") /\ \E c \in RecoverChoices(S) : Commit(RecoverStep(S, c))

----------------------------------------------------------------------------
(* Top-level calls *)

NoResult ==
    [op |-> "none", path |-> NoPath, src |-> NoPath, data |-> Empty, key |-> "",
     val |-> <<>>, err |-> Nil, out |-> Empty, attrs |-> NoAttrs]

Snapshot(s) ==
    [host |-> s.host, attrFiles |-> s.attrFiles, journal |-> s.journal,
     jfile |-> s.jfile, locks |-> s.locks, hooks |-> s.hooks]

NoOriginal == [host |-> <<>>, attrFiles |-> <<>>, set |-> FALSE]

\* the methods that never reach Journal.Log themselves
Unjournaled ==
    {"ReadFile", "ListDir", "Stat", "GetAllAttributes", "Close", "Recover",
     "ListVersions", "GetVersion"}

Begin(s, f) ==
    [s EXCEPT !.stack = <<f>>, !.pre = Snapshot(s), !.hookTrace = <<>>,
              !.result = NoResult,
              !.original = IF f.op = "Recover" THEN @ ELSE NoOriginal]

NoResolved == [path |-> NoPath, err |-> Nil, full |-> <<>>]

\* no call is in progress and the outcome of the last one has been dropped
Idle == stack = <<>> /\ result = NoResult

\* the caller is done with the outcome of the call that returned: the history
\* of that call is dropped
Discard ==
    /\ stack = <<>>
    /\ result # NoResult
    /\ result' = NoResult
    /\ pre' = Snapshot(S)
    /\ hookTrace' = <<>>
    /\ resolved' = NoResolved
    /\ UNCHANGED <<versioning, maxVersions, versions, lm, threads, hooksGuard,
                   backups, clock>>
    /\ UNCHANGED <<rootPath, journaling, host, attrFiles, journal, jfile, jmu, locks,
                   hooks, regLog, stack, original>>

\* the calling goroutine invokes one of the facade methods in `calls`
Call(calls) ==
    /\ Idle
    /\ \E f \in calls :
          /\ Len(journal) < MaxJournal \/ f.op \in Unjournaled
          /\ Commit(Begin(S, f))

\* GetAbsolutePath is fullPath made public; it touches nothing else
GetAbsolutePath(paths) ==
    /\ Idle
    /\ \E p \in paths :
          LET fp == fullPath(rootPath, p)
          IN  /\ resolved' = [path |-> p, err |-> fp.err, full |-> fp.full]
              /\ result' = [NoResult EXCEPT !.op = "GetAbsolutePath", !.path = p,
                                            !.err = fp.err]
    /\ pre' = Snapshot(S)
    /\ UNCHANGED <<versioning, maxVersions, versions, lm, threads, hooksGuard,
                   backups, clock>>
    /\ UNCHANGED <<rootPath, journaling, host, attrFiles, journal, jfile, jmu, locks,
                   hooks, regLog, stack, hookTrace, original>>

F1(op, path) == Frame(op, path, NoPath, Empty, DefaultMode, "", <<>>)

CallsOn(paths, data, keys, values) ==
    {F1(op, p) : op \in {"CreateDir", "ReadFile", "ListDir", "DeleteFile", "DeleteDir",
                         "Stat", "GetAllAttributes"}, p \in paths}
    \cup {Frame("WriteFileWithMode", p, NoPath, d, DefaultMode, "", <<>>) :
             p \in paths, d \in data}
    \cup {Frame(op, dst, src, Empty, DefaultMode, "", <<>>) :
             op \in {"CopyFile", "MoveFile"}, dst \in paths, src \in paths}
    \cup {Frame("SetAttribute", p, NoPath, Empty, DefaultMode, k, v) :
             p \in paths, k \in keys, v \in values}
    \cup {Frame("DeleteAttribute", p, NoPath, Empty, DefaultMode, k, <<>>) :
             p \in paths, k \in keys}

----------------------------------------------------------------------------
(* Hook registration *)

RegEntry(op, typ, hook) == [Op |-> op, Typ |-> typ, hook |-> hook]

HookCount(h) ==
    LET RECURSIVE Sum(_)
        Sum(ks) == IF ks = {} THEN 0
                   ELSE LET k == CHOOSE x \in ks : TRUE
                        IN  Len(h[k]) + Sum(ks \ {k})
    IN  Sum(DOMAIN h)

HookCall(op) == [NoResult EXCEPT !.op = op]

BrokenRegister(h, key, hook) ==
    Put(h, key, <<hook>> \o (IF key \in DOMAIN h THEN h[key] ELSE <<>>))

\* fs.hooks[key] = append(fs.hooks[key], hook)
Register(h, key, hook) ==
    Put(h, key, Append(IF key \in DOMAIN h THEN h[key] ELSE <<>>, hook))

\* SimpleFS.RegisterHook
RegisterHook(op, typ, hook) ==
    /\ Idle
    /\ HookCount(hooks) < MaxHooks
    /\ hooks' = Register(hooks, HookKey(op, typ), hook)
    /\ regLog' = Append(regLog, RegEntry(op, typ, hook))
    /\ pre' = Snapshot(S)
    /\ result' = HookCall("RegisterHook")
    /\ hookTrace' = <<>>
    /\ UNCHANGED <<versioning, maxVersions, versions, lm, threads, hooksGuard,
                   backups, clock>>
    /\ UNCHANGED <<rootPath, journaling, host, attrFiles, journal, jfile, jmu, locks,
                   stack, original, resolved>>

\* SimpleFS.UnregisterHook
UnregisterHook(op, typ) ==
    /\ Idle
    /\ hooks' = RemoveKey(hooks, HookKey(op, typ))
    /\ regLog' = SelectSeq(regLog, LAMBDA e : ~(e.Op = op /\ e.Typ = typ))
    /\ pre' = Snapshot(S)
    /\ result' = HookCall("UnregisterHook")
    /\ hookTrace' = <<>>
    /\ UNCHANGED <<versioning, maxVersions, versions, lm, threads, hooksGuard,
                   backups, clock>>
    /\ UNCHANGED <<rootPath, journaling, host, attrFiles, journal, jfile, jmu, locks,
                   stack, original, resolved>>

\* SimpleFS.UnregisterAllHooks
UnregisterAllHooks ==
    /\ Idle
    /\ hooks' = <<>>
    /\ regLog' = <<>>
    /\ pre' = Snapshot(S)
    /\ result' = HookCall("UnregisterAllHooks")
    /\ hookTrace' = <<>>
    /\ UNCHANGED <<versioning, maxVersions, versions, lm, threads, hooksGuard,
                   backups, clock>>
    /\ UNCHANGED <<rootPath, journaling, host, attrFiles, journal, jfile, jmu, locks,
                   stack, original, resolved>>

----------------------------------------------------------------------------
(* The explicit lock manager: advisory locks named by string keys *)

\* the manager's clock stops at MaxClock
MaxClock == 2

\* LockType
ReadLock == 0
WriteLock == 1

LockTypes == {ReadLock, WriteLock}
LockPaths == {"p", "q"}
Owners == {"A", "B"}
\* LockInfo.Timeout, in ticks of the clock; 0 is "never expires"
Timeouts == {0, 1}
\* the goroutines that call WaitForLock
Waiters == {"w1", "w2"}

ErrWriteLocked == "path is write-locked"
ErrReadLocked == "path is read-locked"
ErrNoLock == "no lock found for path"
ErrNotOwner == "lock is owned by another owner"

LockInfo(path, lockType, owner, createdAt, timeout) ==
    [Path |-> path, Type |-> lockType, Owner |-> owner,
     CreatedAt |-> createdAt, Timeout |-> timeout]

\* a goroutine outside WaitForLock
NoWait == [pc |-> "idle", path |-> "", closed |-> FALSE, ret |-> FALSE]

\* no CleanupExpiredLocks call in progress
NoSweep == [running |-> FALSE, todo |-> {}, now |-> 0, start |-> <<>>]

\* the outcome of the last AcquireLock or ReleaseLock call
NoLast == [op |-> "none", path |-> "", owner |-> "", err |-> Nil]

\* NewExplicitLockManager(). locks and lockWaiters are the two maps; now is
\* time.Now(); w is the position of each goroutine inside WaitForLock, its
\* channel being closed or not; sweep is the CleanupExpiredLocks call that
\* holds lm.mu; closedTwice records a close of a closed channel (a panic);
\* readers is history: the owners whose read lock on a path was granted and
\* has neither been released by them nor expired.
NewExplicitLockManager ==
    [locks |-> <<>>, lockWaiters |-> <<>>, now |-> 0,
     w |-> [t \in Waiters |-> NoWait], sweep |-> NoSweep, last |-> NoLast,
     closedTwice |-> FALSE, readers |-> [path \in LockPaths |-> {}]]

\* AcquireLock re-entrant for the owner of a write lock
BrokenAcquireOutcome(table, path, owner, lockType, timeout, now) ==
    IF /\ path \in DOMAIN table
       /\ table[path].Type = WriteLock
       /\ table[path].Owner # owner
    THEN [err |-> ErrWriteLocked, locks |-> table]
    ELSE [err |-> Nil,
          locks |-> Put(table, path, LockInfo(path, lockType, owner, now, timeout))]

\* AcquireLock keeping the first reader's entry when a second reader arrives
SharedAcquireOutcome(table, path, owner, lockType, timeout, now) ==
    IF path \in DOMAIN table
    THEN IF table[path].Type = ReadLock /\ lockType = ReadLock
         THEN [err |-> Nil, locks |-> table]
         ELSE [err |-> IF table[path].Type = WriteLock THEN ErrWriteLocked
                       ELSE ErrReadLocked,
               locks |-> table]
    ELSE [err |-> Nil,
          locks |-> Put(table, path, LockInfo(path, lockType, owner, now, timeout))]

\* AcquireLock on the table: the error returned and the table afterwards
AcquireOutcome(table, path, owner, lockType, timeout, now) ==
    LET lockInfo == LockInfo(path, lockType, owner, now, timeout)
        granted == [err |-> Nil, locks |-> Put(table, path, lockInfo)]
    IN  IF path \in DOMAIN table
        THEN LET existing == table[path]
             IN  IF existing.Type = WriteLock
                 THEN [err |-> ErrWriteLocked, locks |-> table]
                 ELSE IF existing.Type = ReadLock /\ lockType = ReadLock
                 THEN granted
                 ELSE IF existing.Type = ReadLock /\ lockType = WriteLock
                 THEN [err |-> ErrReadLocked, locks |-> table]
                 ELSE granted
        ELSE granted

\* ReleaseLock that does not look at the owner
BrokenReleaseOutcome(table, path, owner) ==
    IF path \notin DOMAIN table
    THEN [err |-> ErrNoLock, locks |-> table]
    ELSE [err |-> Nil, locks |-> RemoveKey(table, path)]

\* ReleaseLock on the table: the error returned and the table afterwards
ReleaseOutcome(table, path, owner) ==
    IF path \notin DOMAIN table
    THEN [err |-> ErrNoLock, locks |-> table]
    ELSE IF table[path].Owner # owner
    THEN [err |-> ErrNotOwner, locks |-> table]
    ELSE [err |-> Nil, locks |-> RemoveKey(table, path)]

\* the goroutines close(waiter) reaches when only the first waiter is woken
FirstWaiter(list) == IF list = <<>> THEN {} ELSE {list[1]}

\* the goroutines close(waiter) reaches: every element of the list
AllWaiters(list) == SeqToSet(list)

\* under waiterMu: close the channel of every waiter of path and delete the
\* list
NotifyWaiters(m, path) ==
    IF path \in DOMAIN m.lockWaiters
    THEN LET list == m.lockWaiters[path]
             woken == AllWaiters(list)
         IN  [m EXCEPT
                 !.w = [t \in Waiters |->
                           IF t \in woken THEN [m.w[t] EXCEPT !.closed = TRUE]
                           ELSE m.w[t]],
                 !.lockWaiters = RemoveKey(m.lockWaiters, path),
                 !.closedTwice = \/ m.closedTwice
                                 \/ \E t \in woken : m.w[t].closed
                                 \/ Len(list) > Cardinality(woken)]
    ELSE m

\* expiry that forgets the Timeout > 0 test
BrokenExpired(lock, now) == now - lock.CreatedAt > lock.Timeout

\* the test of CleanupExpiredLocks
Expired(lock, now) == lock.Timeout > 0 /\ now - lock.CreatedAt > lock.Timeout

\* WaitForLock that leaves its channel in the list when it times out
BrokenRemoveWaiter(list, t) == list

\* append(waiters[:i], waiters[i+1:]...) for the first i with waiters[i] = t
RemoveWaiter(list, t) ==
    IF t \in SeqToSet(list)
    THEN LET i == CHOOSE k \in 1..Len(list) :
                     list[k] = t /\ \A j \in 1..(k - 1) : list[j] # t
         IN  SubSeq(list, 1, i - 1) \o SubSeq(list, i + 1, Len(list))
    ELSE list

----------------------------------------------------------------------------
(* Goroutines *)

\* the goroutines that share one facade
Goroutines == {"g1", "g2", "g3"}

\* a goroutine that has not called anything yet
NoThread == [stack |-> <<>>, out |-> "none", call |-> "none"]

----------------------------------------------------------------------------
(* Construction *)

\* the host directory tree NewSimpleFS leaves behind: the root, its parents
\* and the journal directory
FreshHost(root) ==
    [x \in Prefixes(root) \cup {root \o <<".journal">>} |-> DirNode]

\* the same with the .versions directory of a facade with versioning
HostOf(root, opts) ==
    IF opts.EnableVersioning THEN Put(FreshHost(root), root \o <<".versions">>, DirNode)
    ELSE FreshHost(root)

\* DefaultOptions()
DefaultOptions ==
    [EnableJournaling |-> TRUE, EnableVersioning |-> FALSE, MaxVersions |-> 10]

\* NewSimpleFS(rootPath, opts), followed by WithExplicitLocking(). The
\* version records are files the constructor finds under .versions and
\* leaves alone, so the initial predicate of each specification names them.
NewSimpleFS(root, opts) ==
    /\ rootPath = root
    /\ journaling = opts.EnableJournaling
    /\ versioning = opts.EnableVersioning
    /\ maxVersions = opts.MaxVersions
    /\ lm = NewExplicitLockManager
    /\ threads = [g \in Goroutines |-> NoThread]
    /\ hooksGuard = Unlocked
    /\ backups = <<>>
    /\ clock = 0
    /\ host = HostOf(root, opts)
    /\ attrFiles = <<>>
    /\ journal = <<>>
    /\ jfile = IF opts.EnableJournaling THEN "open" ELSE "nil"
    /\ jmu = "free"
    /\ locks = <<>>
    /\ hooks = <<>>
    /\ regLog = <<>>
    /\ stack = <<>>
    /\ hookTrace = <<>>
    /\ pre = Snapshot([host |-> HostOf(root, opts), attrFiles |-> <<>>,
                       journal |-> <<>>,
                       jfile |-> IF opts.EnableJournaling THEN "open" ELSE "nil",
                       locks |-> <<>>, hooks |-> <<>>])
    /\ result = NoResult
    /\ original = NoOriginal
    /\ resolved = NoResolved

----------------------------------------------------------------------------
(* Spec: the mutation pipeline with journaling enabled and no hooks *)

Init == NewSimpleFS(Root, DefaultOptions) /\ versions = NoVersions

Calls ==
    CallsOn(PathInputs, Data, AttrKeys, AttrValues)
    \cup {F1("Close", NoPath)}

Next ==
    \/ Call(Calls)
    \/ Discard
    \/ GetAbsolutePath(AllPaths)
    \/ CreateDir
    \/ WriteFileWithMode
    \/ ReadFile
    \/ ListDir
    \/ DeleteFile
    \/ DeleteDir
    \/ CopyFile
    \/ MoveFile
    \/ Stat
    \/ SetAttribute
    \/ GetAllAttributes
    \/ DeleteAttribute
    \/ Close

Spec == Init /\ [][Next]_vars

----------------------------------------------------------------------------
(* What a call has done, read off the history variables *)

NoNode == [kind |-> "none"]

NodeAt(h, fp) == IF fp \in DOMAIN h THEN h[fp] ELSE NoNode

AttrsAt(a, path) == IF path \in DOMAIN a THEN a[path] ELSE NoAttrs

\* where fullPath sends a path the caller passed
FullOf(path) == fullPath(rootPath, path).full

\* the cleaned join of the root and a path does not have the root as a prefix
Outside(path) ==
    ~IsPrefix(rootPath, Join([abs |-> TRUE, segs |-> rootPath], Clean(path)).segs)

\* the facade methods that resolve their argument with fullPath first
Resolving ==
    {"CreateDir", "WriteFileWithMode", "ReadFile", "ListDir", "DeleteFile",
     "DeleteDir", "CopyFile", "MoveFile", "Stat", "SetAttribute"}

TwoPath == {"CopyFile", "MoveFile"}

\* the methods that log the mutation they make
Journaled ==
    {"CreateDir", "WriteFileWithMode", "DeleteFile", "DeleteDir", "MoveFile",
     "SetAttribute"}

\* the entries appended since the current call began
Appended == SubSeq(journal, Len(pre.journal) + 1, Len(journal))

Returned(op) == stack = <<>> /\ result.op = op

----------------------------------------------------------------------------
(* C1 *)

\* C1: fullPath returns, for every input path, either the escape error or a
\* path that is Root or lies under Root, and the error exactly when the cleaned
\* join of Root and the input lies outside Root;
\* a call of a resolving facade method returns the escape error exactly
\* when the cleaned join of Root and one of its path arguments lies outside
\* Root, and it has then created no resource lock, run no hook, appended no
\* journal entry and left the host filesystem and the attribute files alone;
\* every path a frame has resolved is Root or lies under Root.
C1_PathConfinement ==
    /\ stack = <<>> /\ result.op = "GetAbsolutePath" =>
          /\ resolved.err \in {Nil, ErrEscape}
          /\ resolved.err = ErrEscape <=> Outside(resolved.path)
          /\ resolved.err = Nil => IsPrefix(rootPath, resolved.full)
    /\ \A i \in 1..Len(stack) :
          stack[i].pc # "start" /\ stack[i].op \in Resolving
             => /\ IsPrefix(rootPath, stack[i].full)
                /\ stack[i].op \in TwoPath => IsPrefix(rootPath, stack[i].full2)
    /\ stack = <<>> /\ result.op \in Resolving =>
          /\ result.err = ErrEscape <=>
                \/ Outside(result.path)
                \/ result.op \in TwoPath /\ Outside(result.src)
          /\ result.err = ErrEscape =>
                /\ locks = pre.locks
                /\ hookTrace = <<>>
                /\ journal = pre.journal
                /\ host = pre.host
                /\ attrFiles = pre.attrFiles

C1_Witness ==
    /\ Returned("MoveFile")
    /\ result.err = ErrEscape
    /\ ~Outside(result.src)
    /\ \E fp \in DOMAIN host : IsFileAt(host, fp)

----------------------------------------------------------------------------
(* C2 *)

\* the step about to be taken by frame f changes what f's method is there to
\* change: the directory made, the file written, removed or renamed, the
\* attribute map stored
MutationApplied(f) ==
    CASE f.op = "CreateDir" -> IsDirAt(host', f.full) /\ ~IsDirAt(host, f.full)
      [] f.op = "WriteFileWithMode" -> NodeAt(host', f.full) # NodeAt(host, f.full)
      [] f.op \in {"DeleteFile", "DeleteDir"} ->
           f.full \in DOMAIN host /\ f.full \notin DOMAIN host'
      [] f.op = "MoveFile" ->
           f.full2 \in DOMAIN host /\ f.full2 \notin DOMAIN host'
      [] f.op = "SetAttribute" ->
           AttrsAt(attrFiles', f.path) # AttrsAt(attrFiles, f.path)
      [] OTHER -> FALSE

\* the journal entries that describe the mutation of frame f
Describes(f, e) ==
    CASE f.op = "CreateDir" -> e.Operation = "mkdir" /\ e.Path = f.path
      [] f.op = "WriteFileWithMode" ->
           e.Operation = "write" /\ e.Path = f.path /\ e.Data = f.data
      [] f.op \in {"DeleteFile", "DeleteDir"} ->
           e.Operation = "delete" /\ e.Path = f.path
      [] f.op = "MoveFile" -> e.Operation = "delete" /\ e.Path = f.src
      [] f.op = "SetAttribute" ->
           e.Operation = "setattr" /\ e.Path = f.path
           /\ e.Attributes = (f.key :> f.val)
      [] OTHER -> FALSE

----------------------------------------------------------------------------
(* C3 *)

StateChanging ==
    {"CreateDir", "WriteFileWithMode", "DeleteFile", "DeleteDir", "MoveFile",
     "CopyFile", "SetAttribute", "DeleteAttribute"}

\* C3: with journaling enabled, every successful write, mkdir, delete, move,
\* copy and every successful setting or deleting of an attribute has appended
\* at least one journal entry.
C3_JournalCoverage ==
    journaling /\ stack = <<>> /\ result.op \in StateChanging /\ result.err = Nil
        => Len(journal) > Len(pre.journal)

----------------------------------------------------------------------------
(* C7 *)

\* what the call that returned was to change is as it was when it began
TargetUntouched ==
    CASE result.op = "SetAttribute" ->
           AttrsAt(attrFiles, result.path) = AttrsAt(pre.attrFiles, result.path)
      [] result.op = "MoveFile" ->
           /\ NodeAt(host, FullOf(result.path)) = NodeAt(pre.host, FullOf(result.path))
           /\ NodeAt(host, FullOf(result.src)) = NodeAt(pre.host, FullOf(result.src))
      [] OTHER ->
           NodeAt(host, FullOf(result.path)) = NodeAt(pre.host, FullOf(result.path))

\* C7: with journaling enabled, a call of WriteFile, CreateDir, DeleteFile,
\* DeleteDir, MoveFile or SetAttribute made while the journal file is closed
\* returns an error, and a call whose Journal.Log failed leaves its target file,
\* directory or attribute map as it was before the call.
C7_LogFailureAborts ==
    journaling /\ stack = <<>> /\ result.op \in Journaled =>
        /\ pre.jfile = "nil" => result.err # Nil
        /\ pre.jfile = "nil" \/ result.err = ErrLog => TargetUntouched

C7_Witness ==
    /\ Returned("DeleteFile")
    /\ pre.jfile = "nil"
    /\ result.err = ErrLog
    /\ NodeAt(host, FullOf(result.path)) = FileNode("x")

----------------------------------------------------------------------------
(* SpecRecover: journaled operations, a crash, and recovery from the journal *)

RecoverPaths == {Rel_(<<"a">>), Rel_(<<"d">>), Rel_(<<"d", "f">>)}

RecoverCalls ==
    {F1(op, p) : op \in {"CreateDir", "DeleteFile", "DeleteDir"}, p \in RecoverPaths}
    \cup {Frame("WriteFileWithMode", p, NoPath, "x", DefaultMode, "", <<>>) :
             p \in RecoverPaths}
    \cup {Frame("SetAttribute", p, NoPath, Empty, DefaultMode, "k", <<"v">>) :
             p \in RecoverPaths}
    \cup {F1("Close", NoPath), F1("Recover", NoPath)}

\* the process ends while the journal is open and a new facade is constructed
\* on an empty root that holds only the journal file of the old one:
\* NewSimpleFS opens the journal with O_APPEND and keeps its entries
FreshRoot ==
    /\ Idle
    /\ jfile = "open"
    /\ journal # <<>>
    /\ ~original.set
    /\ original' = [host |-> host, attrFiles |-> attrFiles, set |-> TRUE]
    /\ host' = FreshHost(rootPath)
    /\ attrFiles' = <<>>
    /\ locks' = <<>>
    /\ hooks' = <<>>
    /\ regLog' = <<>>
    /\ pre' = Snapshot([S EXCEPT !.host = FreshHost(rootPath), !.attrFiles = <<>>,
                                 !.locks = <<>>, !.hooks = <<>>])
    /\ UNCHANGED <<rootPath, journaling, journal, jfile, jmu, stack, hookTrace,
                   result, resolved, versioning, maxVersions, versions, lm,
                   threads, hooksGuard, backups, clock>>

NextRecover ==
    \/ Call(RecoverCalls)
    \/ Discard
    \/ FreshRoot
    \/ CreateDir
    \/ WriteFileWithMode
    \/ DeleteFile
    \/ DeleteDir
    \/ SetAttribute
    \/ Close
    \/ Recover

SpecRecover == Init /\ [][NextRecover]_vars

\* the files and directories a caller of the facade sees: everything under
\* the root outside the hidden directories
Visible(h) ==
    LET keep == {fp \in DOMAIN h :
                    /\ IsPrefix(rootPath, fp)
                    /\ Len(fp) > Len(rootPath) => fp[Len(rootPath) + 1] \notin Hidden}
    IN  [fp \in keep |-> h[fp]]

\* the attribute files that hold at least one attribute
Attributed(a) == [path \in {q \in DOMAIN a : a[q] # NoAttrs} |-> a[path]]

----------------------------------------------------------------------------
(* C4 *)

\* C4: while Recover runs, no primitive it replays is stopped at a mutex that
\* nothing will release, the journal mutex Recover holds included; Recover
\* therefore returns.
C4_RecoverTerminates ==
    ~(/\ stack # <<>>
      /\ stack[1].op = "Recover"
      /\ jmu = "Recover"
      /\ Last(stack).op \in Journaled
      /\ Last(stack).pc = "blocked")

----------------------------------------------------------------------------
(* C5 *)

\* C5: when Recover has returned on a root that was empty but for the journal
\* of an earlier run, the files, their contents, the directories and the
\* attribute maps are those the earlier run ended with.
C5_RecoveryRebuilds ==
    Returned("Recover") /\ original.set =>
        /\ Visible(host) = Visible(original.host)
        /\ Attributed(attrFiles) = Attributed(original.attrFiles)

----------------------------------------------------------------------------
(* C6 *)

\* C6: when Recover has returned, every path with an entry in the journal is
\* in the state its last entry dictates: the file holds the data of a write,
\* the path of a delete is absent, the directory of a mkdir exists.
C6_RecoveryConvergence ==
    Returned("Recover") /\ result.err = Nil =>
        \A p \in DOMAIN LastEntries(pre.journal, <<>>) :
            LET e == LastEntries(pre.journal, <<>>)[p]
            IN  /\ e.Operation = "write" =>
                     NodeAt(host, FullOf(p)) = FileNode(e.Data)
                /\ e.Operation = "delete" => NodeAt(host, FullOf(p)) = NoNode
                /\ e.Operation = "mkdir" => IsDirAt(host, FullOf(p))

----------------------------------------------------------------------------
(* SpecHooks: registration of hooks and operations that run them *)

HookedOps == {"writeFile", "deleteFile"}

HookPaths == {Rel_(<<"a">>), Rel_(<<"a", "b">>), Rel_(<<"..", "x">>)}

HookCalls ==
    {Frame("WriteFileWithMode", p, NoPath, d, DefaultMode, "", <<>>) :
        p \in HookPaths, d \in HookData}
    \cup {F1("DeleteFile", Rel_(<<"a">>))}

NextHooks ==
    \/ Call(HookCalls)
    \/ Discard
    \/ \E op \in HookedOps, typ \in HookTypes, hook \in HookFuncs :
          RegisterHook(op, typ, hook)
    \/ \E op \in HookedOps, typ \in HookTypes : UnregisterHook(op, typ)
    \/ UnregisterAllHooks
    \/ WriteFileWithMode
    \/ DeleteFile

SpecHooks == Init /\ [][NextHooks]_vars

\* the operation type a facade method puts in its HookContext
OpOf(method) ==
    CASE method = "WriteFileWithMode" -> "writeFile"
      [] method = "DeleteFile" -> "deleteFile"
      [] OTHER -> "none"

\* the callbacks RegisterHook was called with for (op, typ), in call order,
\* since the key was last cleared
RegisteredFor(op, typ) ==
    LET es == SelectSeq(regLog, LAMBDA e : e.Op = op /\ e.Typ = typ)
    IN  [i \in 1..Len(es) |-> es[i].hook]

\* a list of callbacks up to and including the first that returns an error
UpToFirstError(hs) ==
    LET failing == {i \in 1..Len(hs) : HookReturn(hs[i]) # Nil}
    IN  IF failing = {} THEN hs
        ELSE SubSeq(hs, 1, CHOOSE i \in failing : \A j \in failing : i <= j)

\* the callbacks of one phase the current call has invoked, in order
Invoked(typ) ==
    LET es == SelectSeq(hookTrace, LAMBDA e : e.Typ = typ)
    IN  [i \in 1..Len(es) |-> es[i].hook]

Failed(hs) == hs # <<>> /\ HookReturn(Last(hs)) # Nil

HookedMethods == {"WriteFileWithMode", "DeleteFile"}

\* the call that returned got past path resolution and its checks of the host
\* filesystem, so it reached its pre-hooks
ReachedHooks ==
    /\ ~Outside(result.path)
    /\ result.err \notin {ErrParentDirs, ErrNotExist, ErrNotDir, ErrDeleteIsDir}

----------------------------------------------------------------------------
(* C10 *)

\* C10: the callbacks stored for every (operation, phase) key are those
\* registered for it, in the order of the RegisterHook calls; a call that
\* reaches a phase invokes them in that order up to and including the first
\* that returns an error, and returns exactly that error; after a failed
\* pre-phase nothing of the post-phase runs; with nothing registered a phase
\* invokes nothing and returns nil.
C10_HookOrder ==
    /\ \A key \in DOMAIN hooks \cup {HookKey(e.Op, e.Typ) : e \in SeqToSet(regLog)} :
          /\ key \in DOMAIN hooks
          /\ hooks[key] = RegisteredFor(key.Op, key.Typ)
          /\ hooks[key] # <<>>
    /\ \A e \in SeqToSet(hookTrace) : stack # <<>> => e.Op = OpOf(stack[1].op)
    /\ stack = <<>> /\ result.op \in HookedMethods =>
          LET op == OpOf(result.op)
              pres == UpToFirstError(RegisteredFor(op, "pre"))
              posts == UpToFirstError(RegisteredFor(op, "post"))
          IN  /\ Invoked("pre") \in {<<>>, pres}
              /\ Invoked("post") \in {<<>>, posts}
              /\ ReachedHooks => Invoked("pre") = pres
              /\ Failed(Invoked("pre")) =>
                    /\ result.err = HookReturn(Last(Invoked("pre")))
                    /\ Invoked("post") = <<>>
              /\ Invoked("post") # <<>> \/ result.err = Nil =>
                    /\ Invoked("post") = posts
                    /\ result.err = IF Failed(posts) THEN HookReturn(Last(posts)) ELSE Nil

C10_Witness ==
    /\ Returned("WriteFileWithMode")
    /\ Len(RegisteredFor("writeFile", "pre")) = 2
    /\ HookReturn(RegisteredFor("writeFile", "pre")[1]) = "errB"
    /\ HookReturn(RegisteredFor("writeFile", "pre")[2]) = "errA"
    /\ Invoked("pre") = <<RegisteredFor("writeFile", "pre")[1]>>
    /\ result.err = "errB"

----------------------------------------------------------------------------
(* C8 *)

\* the pre-hooks of writeFile registered when the call began
WritePreHooks ==
    IF HookKey("writeFile", "pre") \in DOMAIN pre.hooks
    THEN pre.hooks[HookKey("writeFile", "pre")] ELSE <<>>

Vetoing == {i \in 1..Len(WritePreHooks) : HookReturn(WritePreHooks[i]) # Nil}

ContentUnchanged ==
    NodeAt(host, FullOf(result.path)) = NodeAt(pre.host, FullOf(result.path))

\* C8 as stated: while a pre-hook of writeFile always returns an error, every
\* WriteFile call fails with the error of that hook, leaves the content of the
\* target as it was, and runs no post-hook.
C8_HookVeto ==
    Returned("WriteFileWithMode") =>
        \A i \in Vetoing :
            /\ result.err = HookReturn(WritePreHooks[i])
            /\ ContentUnchanged
            /\ Invoked("post") = <<>>

\* C8, amended: while a pre-hook of writeFile always returns an error, every
\* WriteFile call fails, leaves the content of the target as it was and runs
\* no post-hook; the error is that of the first failing pre-hook in
\* registration order, unless the path leaves the root or the parent
\* directory cannot be created, which fail the call before any hook runs.
C8_HookVetoAmended ==
    Returned("WriteFileWithMode") /\ Vetoing # {} =>
        /\ result.err # Nil
        /\ ContentUnchanged
        /\ Invoked("post") = <<>>
        /\ result.err =
              IF Outside(result.path) THEN ErrEscape
              ELSE IF \E q \in Prefixes(Dir(FullOf(result.path))) : IsFileAt(pre.host, q)
                   THEN ErrParentDirs
              ELSE HookReturn(Last(UpToFirstError(WritePreHooks)))

C8_Witness ==
    /\ Returned("WriteFileWithMode")
    /\ WritePreHooks = <<"hErrA">>
    /\ HookKey("writeFile", "post") \in DOMAIN hooks
    /\ result.err = "errA"
    /\ NodeAt(host, FullOf(result.path)).kind = "file"
    /\ NodeAt(host, FullOf(result.path)).data # result.data

----------------------------------------------------------------------------
(* C9 *)

\* the journal entry and the host change of the call that returned
MutationInPlace ==
    CASE result.op = "WriteFileWithMode" ->
           /\ NodeAt(host, FullOf(result.path)) = FileNode(result.data)
           /\ Len(journal) = Len(pre.journal) + 1
           /\ Last(journal).Operation = "write"
           /\ Last(journal).Path = result.path
           /\ Last(journal).Data = result.data
      [] result.op = "DeleteFile" ->
           /\ NodeAt(pre.host, FullOf(result.path)).kind = "file"
           /\ NodeAt(host, FullOf(result.path)) = NoNode
           /\ Len(journal) = Len(pre.journal) + 1
           /\ Last(journal).Operation = "delete"
           /\ Last(journal).Path = result.path
      [] OTHER -> FALSE

\* C9: when a post-hook of a call returns an error, the call returns that
\* error, the file change and the journal entry the call made are in place,
\* and no post-hook registered after the failing one has run.
C9_PostHookAsymmetry ==
    stack = <<>> /\ result.op \in HookedMethods /\ Failed(Invoked("post")) =>
        /\ result.err = HookReturn(Last(Invoked("post")))
        /\ MutationInPlace
        /\ Invoked("post") = UpToFirstError(RegisteredFor(OpOf(result.op), "post"))

C9_Witness ==
    /\ Returned("WriteFileWithMode")
    /\ RegisteredFor("writeFile", "post") = <<"hErrA", "hOk">>
    /\ Invoked("post") = <<"hErrA">>
    /\ result.err = "errA"
    /\ NodeAt(pre.host, FullOf(result.path)).kind = "file"
    /\ NodeAt(host, FullOf(result.path)) = FileNode(result.data)
    /\ NodeAt(pre.host, FullOf(result.path)) # FileNode(result.data)


----------------------------------------------------------------------------
(* SpecLocks: owners, waiters and the sweeper on the explicit lock manager *)

facadeVars ==
    <<rootPath, journaling, host, attrFiles, journal, jfile, jmu, locks, hooks,
      regLog, stack, hookTrace, pre, result, original, resolved, versioning,
      maxVersions, versions, threads, hooksGuard, backups, clock>>

\* the value AcquireLock and ReleaseLock return
Outcome(op, path, owner, err) ==
    [op |-> op, path |-> path, owner |-> owner, err |-> err]

\* AcquireLock(path, owner, lockType, timeout), under lm.mu
AcquireLock(path, owner, lockType, timeout) ==
    /\ ~lm.sweep.running
    /\ LET out == AcquireOutcome(lm.locks, path, owner, lockType, timeout, lm.now)
       IN  lm' = [lm EXCEPT
                     !.locks = out.locks,
                     !.last = Outcome("AcquireLock", path, owner, out.err),
                     !.readers[path] = IF out.err = Nil /\ lockType = ReadLock
                                       THEN @ \cup {owner} ELSE @]
    /\ UNCHANGED facadeVars

\* ReleaseLock(path, owner), under lm.mu and then waiterMu
ReleaseLock(path, owner) ==
    /\ ~lm.sweep.running
    /\ LET out == ReleaseOutcome(lm.locks, path, owner)
           m == [lm EXCEPT
                    !.locks = out.locks,
                    !.last = Outcome("ReleaseLock", path, owner, out.err),
                    !.readers[path] = IF out.err = Nil THEN @ \ {owner} ELSE @]
       IN  lm' = IF out.err = Nil THEN NotifyWaiters(m, path) ELSE m
    /\ UNCHANGED facadeVars

\* one iteration of the loop of CleanupExpiredLocks on the entry of path
Visit(m, path) ==
    LET rest == m.sweep.todo \ {path}
        swept == IF Expired(m.locks[path], m.sweep.now)
                 THEN NotifyWaiters([m EXCEPT !.locks = RemoveKey(m.locks, path),
                                              !.readers[path] = {}], path)
                 ELSE m
    IN  [swept EXCEPT !.sweep = IF rest = {} THEN NoSweep
                                ELSE [m.sweep EXCEPT !.todo = rest]]

\* CleanupExpiredLocks(): it takes lm.mu and reads the clock, visits the
\* entries in the order the map yields them, taking waiterMu for each entry
\* it removes, and gives lm.mu back after the last one
CleanupExpiredLocks ==
    /\ \/ /\ ~lm.sweep.running
          /\ lm.locks # <<>>
          /\ lm' = [lm EXCEPT !.sweep = [running |-> TRUE,
                                         todo |-> DOMAIN lm.locks,
                                         now |-> lm.now,
                                         start |-> lm.locks]]
       \/ /\ lm.sweep.running
          /\ \E path \in lm.sweep.todo : lm' = Visit(lm, path)
    /\ UNCHANGED facadeVars

\* WaitForLock(path, maxWait) called by goroutine t. It registers a fresh
\* channel under waiterMu and selects on the channel and on a timer. A
\* blocked select takes the case that becomes ready first: the channel if it
\* is closed before the timer fires, the timer otherwise. On the timer it
\* removes its channel from the list under waiterMu and returns false.
WaitForLock(t) ==
    /\ \/ /\ lm.w[t].pc \in {"idle", "done"}
          /\ \E path \in LockPaths :
                LET list == IF path \in DOMAIN lm.lockWaiters
                            THEN lm.lockWaiters[path] ELSE <<>>
                IN  lm' = [lm EXCEPT
                              !.lockWaiters = Put(lm.lockWaiters, path, Append(list, t)),
                              !.w[t] = [pc |-> "select", path |-> path,
                                        closed |-> FALSE, ret |-> FALSE]]
       \/ /\ lm.w[t].pc = "select"
          /\ lm.w[t].closed
          /\ lm' = [lm EXCEPT !.w[t] = [NoWait EXCEPT !.pc = "done", !.ret = TRUE]]
       \/ /\ lm.w[t].pc = "select"
          /\ ~lm.w[t].closed
          /\ lm' = [lm EXCEPT !.w[t].pc = "timeout"]
       \/ /\ lm.w[t].pc = "timeout"
          /\ LET path == lm.w[t].path
             IN  lm' = [lm EXCEPT
                           !.lockWaiters =
                               IF path \in DOMAIN lm.lockWaiters
                               THEN Put(lm.lockWaiters, path,
                                        RemoveWaiter(lm.lockWaiters[path], t))
                               ELSE lm.lockWaiters,
                           !.w[t] = [NoWait EXCEPT !.pc = "done", !.ret = FALSE]]
    /\ UNCHANGED facadeVars

\* time passes
Tick ==
    /\ lm.now < MaxClock
    /\ lm' = [lm EXCEPT !.now = lm.now + 1]
    /\ UNCHANGED facadeVars

NextLocks ==
    \/ \E path \in LockPaths, owner \in Owners, lockType \in LockTypes,
          timeout \in Timeouts : AcquireLock(path, owner, lockType, timeout)
    \/ \E path \in LockPaths, owner \in Owners : ReleaseLock(path, owner)
    \/ CleanupExpiredLocks
    \/ Tick

SpecLocks == Init /\ [][NextLocks]_vars

\* the entry of path is a write lock
WriteLocked(m, path) == path \in DOMAIN m.locks /\ m.locks[path].Type = WriteLock

\* the entry of path is a read lock
ReadLocked(m, path) == path \in DOMAIN m.locks /\ m.locks[path].Type = ReadLock

----------------------------------------------------------------------------
(* C11 *)

\* C11: while a write lock on a path is in the table, every AcquireLock on
\* that path, by any owner (the holder included) and for either type, fails
\* with the write-locked conflict and leaves the table as it was; the entry
\* stays as it is until its owner releases it or a sweep removes it.
C11_WriteLockExcludes ==
    [][\A path \in LockPaths :
          WriteLocked(lm, path) =>
             /\ \A owner \in Owners, lockType \in LockTypes, timeout \in Timeouts :
                   AcquireLock(path, owner, lockType, timeout) =>
                      /\ lm'.last.err = ErrWriteLocked
                      /\ lm'.locks = lm.locks
             /\ \/ path \in DOMAIN lm'.locks /\ lm'.locks[path] = lm.locks[path]
                \/ /\ path \notin DOMAIN lm'.locks
                   /\ \/ ReleaseLock(path, lm.locks[path].Owner)
                      \/ CleanupExpiredLocks /\ Expired(lm.locks[path], lm.sweep.now)]_vars

\* the holder of a write lock has asked for the path again and was refused
C11_Witness ==
    /\ lm.last.op = "AcquireLock"
    /\ lm.last.err = ErrWriteLocked
    /\ WriteLocked(lm, lm.last.path)
    /\ lm.locks[lm.last.path].Owner = lm.last.owner


----------------------------------------------------------------------------
(* C12 *)

\* C12: a write lock on a path is never in the table while an owner that was
\* granted a read lock on the path has not released it.
C12_WriteExcludesReaders ==
    \A path \in LockPaths : WriteLocked(lm, path) => lm.readers[path] = {}

----------------------------------------------------------------------------
(* C13 *)

\* C13: AcquireLock is decided by the entry of the path and the type asked
\* for. A free path, or a read lock met by a read request, is granted: the
\* entry of the path becomes the requester's, with its type, the time of the
\* call and its timeout. A read lock met by a write request fails with the
\* read-locked conflict and a write lock fails every request with the
\* write-locked conflict, the table staying as it was. The table holds one
\* entry per path, filed under its own path.
C13_AcquireDecision ==
    [][\A path \in LockPaths, owner \in Owners, lockType \in LockTypes,
          timeout \in Timeouts :
          AcquireLock(path, owner, lockType, timeout) =>
             /\ \/ path \notin DOMAIN lm.locks
                \/ ReadLocked(lm, path) /\ lockType = ReadLock
                => /\ lm'.last.err = Nil
                   /\ DOMAIN lm'.locks = DOMAIN lm.locks \cup {path}
                   /\ lm'.locks[path] =
                         LockInfo(path, lockType, owner, lm.now, timeout)
                   /\ \A other \in DOMAIN lm.locks \ {path} :
                         lm'.locks[other] = lm.locks[other]
             /\ ReadLocked(lm, path) /\ lockType = WriteLock
                => lm'.last.err = ErrReadLocked /\ lm'.locks = lm.locks
             /\ WriteLocked(lm, path)
                => lm'.last.err = ErrWriteLocked /\ lm'.locks = lm.locks
             /\ \A held \in DOMAIN lm'.locks : lm'.locks[held].Path = held]_vars

\* a second reader has been granted a path while the first reader's lock was
\* outstanding, and the entry is now the second reader's
C13_Witness ==
    /\ lm.last.op = "AcquireLock"
    /\ lm.last.err = Nil
    /\ ReadLocked(lm, lm.last.path)
    /\ lm.locks[lm.last.path].Owner = lm.last.owner
    /\ lm.readers[lm.last.path] = Owners
    /\ lm.locks[lm.last.path].CreatedAt = lm.now
    /\ lm.now > 0

----------------------------------------------------------------------------
(* SpecWait: goroutines waiting on paths that owners lock for writing *)

\* the owner that takes locks here; the other owner only tries to release
Holders == {"A"}

NextWait ==
    \/ \E path \in LockPaths, owner \in Holders, timeout \in Timeouts :
          AcquireLock(path, owner, WriteLock, timeout)
    \/ \E path \in LockPaths, owner \in Owners : ReleaseLock(path, owner)
    \/ CleanupExpiredLocks
    \/ \E t \in Waiters : WaitForLock(t)
    \/ Tick

SpecWait == Init /\ [][NextWait]_vars

----------------------------------------------------------------------------
(* C14 *)

\* C14: ReleaseLock removes the entry of the path, and only that entry, when
\* the entry exists and its owner is the caller. Otherwise it fails, with the
\* not-found error when the path has no entry and with the not-owner error
\* when the entry is another owner's, and then the table is as it was and no
\* waiter is woken or dropped from a list.
C14_OwnerOnlyRelease ==
    [][\A path \in LockPaths, owner \in Owners :
          ReleaseLock(path, owner) =>
             IF path \in DOMAIN lm.locks /\ lm.locks[path].Owner = owner
             THEN /\ lm'.last.err = Nil
                  /\ DOMAIN lm'.locks = DOMAIN lm.locks \ {path}
                  /\ \A other \in DOMAIN lm'.locks :
                        lm'.locks[other] = lm.locks[other]
             ELSE /\ lm'.last.err = IF path \in DOMAIN lm.locks THEN ErrNotOwner
                                    ELSE ErrNoLock
                  /\ lm'.locks = lm.locks
                  /\ lm'.w = lm.w
                  /\ lm'.lockWaiters = lm.lockWaiters]_vars

\* an owner that does not hold the lock has tried to release it while a
\* goroutine waits on the path: the entry is still there, the waiter still
\* waits
C14_Witness ==
    /\ lm.last.op = "ReleaseLock"
    /\ lm.last.err = ErrNotOwner
    /\ lm.last.path \in DOMAIN lm.locks
    /\ lm.locks[lm.last.path].Owner # lm.last.owner
    /\ \E t \in Waiters :
          /\ lm.w[t].pc = "select"
          /\ lm.w[t].path = lm.last.path
          /\ ~lm.w[t].closed

----------------------------------------------------------------------------
(* C15 *)

\* the goroutines whose channel is in the waiter list of path
Registered(m, path) ==
    IF path \in DOMAIN m.lockWaiters THEN SeqToSet(m.lockWaiters[path]) ELSE {}

\* A step is a broadcast for the waiters at the positions pcs: a successful
\* ReleaseLock closes the channel of every goroutine registered on the path
\* and of nobody else, deletes the list of the path and leaves the other
\* lists alone; no channel is ever closed twice; and a goroutine at one of
\* the positions pcs whose channel is closed returns true.
Broadcast(pcs) ==
    /\ \A path \in LockPaths, owner \in Owners :
          ReleaseLock(path, owner) /\ lm'.last.err = Nil =>
             /\ \A t \in Registered(lm, path) : lm'.w[t].closed
             /\ \A t \in Waiters \ Registered(lm, path) : lm'.w[t] = lm.w[t]
             /\ Registered(lm', path) = {}
             /\ \A other \in LockPaths \ {path} :
                   Registered(lm', other) = Registered(lm, other)
    /\ ~lm'.closedTwice
    /\ \A t \in Waiters :
          lm.w[t].pc \in pcs /\ lm.w[t].closed /\ lm'.w[t] # lm.w[t]
          => lm'.w[t].pc = "done" /\ lm'.w[t].ret

\* C15 (as stated): when ReleaseLock succeeds on a path, every WaitForLock
\* call registered on the path at that moment returns true, the list of the
\* path is empty afterwards, no channel is closed twice and the waiters of
\* other paths are not woken.
C15_ReleaseBroadcast == [][Broadcast({"select", "timeout"})]_vars

\* C15 (amended): when ReleaseLock succeeds on a path, the channel of every
\* WaitForLock call registered on the path at that moment is closed, and the
\* call returns true unless its timer had fired before the release; the list
\* of the path is empty afterwards, no channel is closed twice and the
\* waiters of other paths are not woken.
C15_ReleaseBroadcastAmended == [][Broadcast({"select"})]_vars

\* a release has just woken both goroutines, which were waiting on the path
C15_Witness ==
    /\ lm.last.op = "ReleaseLock"
    /\ lm.last.err = Nil
    /\ Registered(lm, lm.last.path) = {}
    /\ \A t \in Waiters :
          lm.w[t].pc = "select" /\ lm.w[t].path = lm.last.path /\ lm.w[t].closed

----------------------------------------------------------------------------
(* C16 *)

\* goroutines waiting on either path while one path is locked and released
NextWaitOne ==
    \/ \E timeout \in Timeouts : AcquireLock("p", "A", WriteLock, timeout)
    \/ \E owner \in Owners : ReleaseLock("p", owner)
    \/ CleanupExpiredLocks
    \/ \E t \in Waiters : WaitForLock(t)
    \/ Tick

\* the scheduler runs a goroutine that can take a step, and a timer that has
\* been started fires
SpecWaitFair ==
    Init /\ [][NextWaitOne]_vars /\ \A t \in Waiters : WF_vars(WaitForLock(t))

\* goroutine t is inside WaitForLock
Waiting(t) == lm.w[t].pc \in {"select", "timeout"}

\* C16: a WaitForLock call always returns. It returns true only when its
\* channel was closed, by a release or a sweep of the path, while it waited,
\* and it cannot return anything else once that has happened; it returns
\* false only when its timer has fired first. No step of the call changes
\* the lock table, and after a false return the caller's channel is in no
\* waiter list.
C16_WaitReturns ==
    /\ \A t \in Waiters : Waiting(t) ~> lm.w[t].pc = "done"
    /\ [][\A t \in Waiters :
             WaitForLock(t) =>
                /\ lm'.locks = lm.locks
                /\ lm.w[t].pc = "select" /\ lm.w[t].closed
                   => lm'.w[t].pc = "done" /\ lm'.w[t].ret
                /\ Waiting(t) /\ lm'.w[t].pc = "done" /\ lm'.w[t].ret
                   => lm.w[t].pc = "select" /\ lm.w[t].closed
                /\ Waiting(t) /\ lm'.w[t].pc = "done" /\ ~lm'.w[t].ret
                   => /\ lm.w[t].pc = "timeout"
                      /\ \A path \in LockPaths : t \notin Registered(lm', path)]_vars

\* a goroutine has timed out on a path that is still locked and that another
\* goroutine still waits for
C16_Witness ==
    \E t \in Waiters, u \in Waiters :
        /\ lm.w[t].pc = "done"
        /\ ~lm.w[t].ret
        /\ lm.w[u].pc = "select"
        /\ lm.w[u].path \in DOMAIN lm.locks
        /\ Registered(lm, lm.w[u].path) = {u}

----------------------------------------------------------------------------
(* C17 *)

\* the entry has a timeout and is older than it at time now
AgedOut(lock, now) == lock.Timeout # 0 /\ lock.CreatedAt + lock.Timeout < now

\* C17: CleanupExpiredLocks removes exactly the entries that have a timeout
\* greater than zero and are older than it, keeps every other entry, and
\* closes the channel of every waiter of a path it removes, deleting the
\* list. Outside a sweep nothing removes an aged-out entry but its owner's
\* release: it stays in the table and AcquireLock meets it like any other
\* entry, failing with the conflict of its type.
C17_ExpirySweep ==
    [][/\ CleanupExpiredLocks /\ ~lm.sweep.running =>
             /\ lm'.locks = lm.locks
             /\ lm'.w = lm.w
             /\ lm'.lockWaiters = lm.lockWaiters
       /\ CleanupExpiredLocks /\ lm.sweep.running =>
             LET path == CHOOSE visited \in lm.sweep.todo :
                             visited \notin lm'.sweep.todo
             IN  /\ \A other \in DOMAIN lm.locks \ {path} :
                       /\ other \in DOMAIN lm'.locks
                       /\ lm'.locks[other] = lm.locks[other]
                 /\ IF AgedOut(lm.locks[path], lm.sweep.now)
                    THEN /\ path \notin DOMAIN lm'.locks
                         /\ \A t \in Registered(lm, path) : lm'.w[t].closed
                         /\ \A t \in Waiters \ Registered(lm, path) :
                               lm'.w[t] = lm.w[t]
                         /\ Registered(lm', path) = {}
                    ELSE /\ path \in DOMAIN lm'.locks
                         /\ lm'.locks[path] = lm.locks[path]
                         /\ lm'.w = lm.w
                         /\ lm'.lockWaiters = lm.lockWaiters
                 /\ ~lm'.sweep.running =>
                       \A held \in DOMAIN lm.sweep.start :
                          held \in DOMAIN lm'.locks
                          <=> ~AgedOut(lm.sweep.start[held], lm.sweep.now)
       /\ \A path \in DOMAIN lm.locks :
             AgedOut(lm.locks[path], lm.now) =>
                /\ path \in DOMAIN lm'.locks
                   \/ CleanupExpiredLocks
                   \/ ReleaseLock(path, lm.locks[path].Owner)
                /\ \A owner \in Owners, lockType \in LockTypes,
                      timeout \in Timeouts :
                      AcquireLock(path, owner, lockType, timeout)
                      /\ (WriteLocked(lm, path) \/ lockType = WriteLock)
                      => /\ lm'.last.err = IF WriteLocked(lm, path)
                                           THEN ErrWriteLocked ELSE ErrReadLocked
                         /\ lm'.locks = lm.locks]_vars

\* a sweep has ended that removed an aged-out entry and woke its waiter while
\* it kept an entry without timeout that is as old
C17_Witness ==
    /\ ~lm.sweep.running
    /\ \E gone \in LockPaths, kept \in LockPaths, t \in Waiters :
          /\ gone \notin DOMAIN lm.locks
          /\ lm.w[t].pc = "select" /\ lm.w[t].path = gone /\ lm.w[t].closed
          /\ kept \in DOMAIN lm.locks
          /\ lm.locks[kept].Timeout = 0
          /\ lm.locks[kept].CreatedAt = 0
          /\ lm.now = MaxClock

----------------------------------------------------------------------------
(* SimpleFS.ListVersions, SimpleFS.GetVersion, SimpleFS.RestoreVersion *)

\* the listing is handed back in the attrs slot of the outcome
ListVersionsStep(s) ==
    LET l == ListVersionsOutcome(s, Top(s).path)
    IN  Return(l.s, [NoRet EXCEPT !.err = l.err, !.attrs = l.listing])

ListVersions == Running("ListVersions") /\ Commit(ListVersionsStep(S))

\* the version identifier travels in the key slot of the frame; the metadata
\* is handed back in the attrs slot of the outcome
GetVersionStep(s) ==
    LET g == GetVersionOutcome(s, Top(s).path, Top(s).key)
    IN  Return(g.s, [err |-> g.err, data |-> g.data,
                     attrs |-> IF g.err = Nil THEN <<g.info>> ELSE NoAttrs])

GetVersion == Running("GetVersion") /\ Commit(GetVersionStep(S))

RestoreVersionStep(s, k) ==
    LET f == Top(s)
        write == Frame("WriteFileWithMode", f.path, NoPath, f.data, DefaultMode, "", <<>>)
    IN  CASE f.pc = "start" ->
               LET g == GetVersionOutcome(s, f.path, f.key)
                   s1 == WithTop(g.s, [f EXCEPT !.data = g.data,
                                                !.attrs = g.info.Attributes])
               IN  IF ~s.versioning THEN ReturnErr(s, ErrNoVersioning)
                   ELSE IF g.err # Nil THEN ReturnErr(g.s, ErrGetVersion)
                   ELSE IF FileExists(g.s, f.path)
                        THEN Push(Goto(s1, "write"),
                                  Frame("createVersion", f.path, NoPath, Empty,
                                        DefaultMode, "", <<>>))
                   ELSE Push(Goto(s1, "written"), [write EXCEPT !.data = g.data])
          [] f.pc = "write" ->
               IF f.ret.err # Nil THEN ReturnErr(s, ErrCreateVersion)
               ELSE Push(Goto(s, "written"), write)
          [] f.pc = "written" ->
               IF f.ret.err # Nil THEN ReturnErr(s, ErrRestoreWrite)
               ELSE IF DOMAIN f.attrs = {} THEN ReturnErr(s, Nil)
               ELSE WithTop(s, [f EXCEPT !.todo = DOMAIN f.attrs, !.pc = "setattrs"])
          [] f.pc = "setattrs" ->
               IF f.ret.err # Nil THEN ReturnErr(s, ErrRestoreAttr)
               ELSE IF f.todo = {} THEN ReturnErr(s, Nil)
               ELSE Push(WithTop(s, [f EXCEPT !.todo = @ \ {k}]),
                         Frame("SetAttribute", f.path, NoPath, Empty, DefaultMode,
                               k, f.attrs[k]))

RestoreVersion ==
    Running("RestoreVersion") /\ \E k \in Choices(S) : Commit(RestoreVersionStep(S, k))

----------------------------------------------------------------------------
(* SpecVersions: a facade with versioning enabled and a version limit *)

VersionedOptions ==
    [EnableJournaling |-> TRUE, EnableVersioning |-> TRUE, MaxVersions |-> MaxVersions]

\* the file the calls are about
Doc == Rel_(<<"a">>)

\* version records of Doc found on disk at construction: as many as the
\* limit allows, drawn and stamped in order
Seeded ==
    LET dir == [id \in {VersionIDs[i] : i \in 1..MaxVersions} |->
                  LET n == CHOOSE i \in 1..MaxVersions : VersionIDs[i] = id
                  IN  Record(VersionInfo(id, Doc, n, "x", NoAttrs), "x")]
    IN  [dirs |-> Put(<<>>, Doc, dir), issued |-> MaxVersions]

InitVersions ==
    /\ NewSimpleFS(Root, VersionedOptions)
    /\ versions \in {NoVersions, Seeded}

VersionCalls ==
    {F1(op, Doc) : op \in {"ReadFile", "DeleteFile", "ListVersions"}}
    \cup {Frame("WriteFileWithMode", Doc, NoPath, d, DefaultMode, "", <<>>) :
             d \in HookData}
    \cup {Frame(op, Doc, NoPath, Empty, DefaultMode, VersionIDs[i], <<>>) :
             op \in {"GetVersion", "RestoreVersion"}, i \in 1..(MaxVersions + 1)}

NextVersions ==
    \/ Call(VersionCalls)
    \/ Discard
    \/ WriteFileWithMode
    \/ ReadFile
    \/ DeleteFile
    \/ GetAllAttributes
    \/ createVersion
    \/ ListVersions
    \/ GetVersion
    \/ RestoreVersion

SpecVersions == InitVersions /\ [][NextVersions]_vars

\* a frame of the calling goroutine waits for a mutex that the goroutine
\* itself holds
Deadlocked == \E i \in 1..Len(stack) : stack[i].pc = "blocked"

\* every mutex of the lock registry is free
AllFree == \A k \in DOMAIN locks : locks[k] = Unlocked

----------------------------------------------------------------------------
(* C18 *)

\* C18: with versioning enabled, a WriteFile or DeleteFile call never waits
\* for a lock it cannot get (the ReadFile that takes the snapshot included),
\* and when the call has returned every lock of the registry is free.
C18_VersionedMutationsComplete ==
    /\ versioning /\ stack # <<>>
       /\ stack[1].op \in {"WriteFileWithMode", "DeleteFile"}
       => ~Deadlocked
    /\ versioning /\ result.op \in {"WriteFileWithMode", "DeleteFile"} => AllFree

----------------------------------------------------------------------------
(* C19 *)

\* the metadata of the version records of a path in a versions store
InfosOf(v, path) ==
    IF path \in DOMAIN v.dirs THEN {v.dirs[path][id].info : id \in DOMAIN v.dirs[path]}
    ELSE {}

\* this step is the return of a createVersion call that succeeded
SnapshotStored ==
    /\ stack # <<>>
    /\ Last(stack).op = "createVersion"
    /\ Last(stack).pc = "store"
    /\ Len(stack') = Len(stack) - 1
    /\ Last(stack').ret.err = Nil

\* C19: with a version limit K > 0, when a snapshot-and-prune cycle has
\* completed the path has at most K version records, the snapshot just taken
\* is one of them, and every record the cycle removed is older than every
\* record it kept.
C19_PruneKeepsNewest ==
    [][SnapshotStored /\ maxVersions > 0 =>
          LET path == Last(stack).path
              before == InfosOf(versions, path)
              after == InfosOf(versions', path)
              taken == after \ before
              removed == before \ after
          IN  /\ Cardinality(after) <= maxVersions
              /\ Cardinality(taken) = 1
              /\ \A gone \in removed, kept \in after : gone.CreatedAt < kept.CreatedAt
              /\ \A other \in DOMAIN versions.dirs \ {path} :
                    versions'.dirs[other] = versions.dirs[other]]_vars

\* RestoreVersion has taken a snapshot of the current file: the store was at
\* its limit, and the oldest record has made room for the new one
C19_Witness ==
    /\ stack # <<>>
    /\ Last(stack).op = "RestoreVersion"
    /\ Last(stack).pc = "write"
    /\ Last(stack).ret.err = Nil
    /\ versions.issued = MaxVersions + 1
    /\ VersionIDs[1] \notin DOMAIN VersionDir(S, Doc)
    /\ VersionIDs[MaxVersions + 1] \in DOMAIN VersionDir(S, Doc)
    /\ Cardinality(DOMAIN VersionDir(S, Doc)) = MaxVersions

----------------------------------------------------------------------------
(* C20 *)

\* the WriteFile calls on a path that have reached the journal
WritesTo(path) ==
    Cardinality({i \in 1..Len(journal) :
                    journal[i].Operation = "write" /\ journal[i].Path = path})

\* C20: with a version limit K, WriteFile calls on a path can be made one
\* after another, none of them waiting forever, and a ListVersions call that
\* returns after more than K of them lists exactly K records, newest first.
C20_ListingAfterWrites ==
    /\ versioning /\ stack # <<>> /\ stack[1].op = "WriteFileWithMode" => ~Deadlocked
    /\ versioning /\ result.op = "ListVersions" /\ result.err = Nil =>
          LET listing == result.attrs
          IN  /\ \A i \in 1..(Len(listing) - 1) :
                    listing[i].CreatedAt > listing[i + 1].CreatedAt
              /\ WritesTo(result.path) > maxVersions => Len(listing) = maxVersions

----------------------------------------------------------------------------
(* SpecScenario: the versioning example, a file rewritten several times *)

\* Options{EnableVersioning: true, MaxVersions: 2}
ScenarioOptions ==
    [EnableJournaling |-> TRUE, EnableVersioning |-> TRUE, MaxVersions |-> 2]

\* the contents written to the file, in the order of the scenario
Contents == <<"v1", "v2", "v3", "v4">>

InitScenario == NewSimpleFS(Root, ScenarioOptions) /\ versions = NoVersions

ScenarioCalls ==
    {F1(op, Doc) : op \in {"ReadFile", "ListVersions"}}
    \cup {Frame("WriteFileWithMode", Doc, NoPath, Contents[i], DefaultMode, "", <<>>) :
             i \in DOMAIN Contents}

NextScenario ==
    \/ Call(ScenarioCalls)
    \/ Discard
    \/ WriteFileWithMode
    \/ ReadFile
    \/ createVersion
    \/ ListVersions

SpecScenario == InitScenario /\ [][NextScenario]_vars

\* the contents the WriteFile calls on a path have logged, in call order
WrittenTo(path) ==
    LET writes == SelectSeq(journal, LAMBDA e : e.Operation = "write" /\ e.Path = path)
    IN  [i \in 1..Len(writes) |-> writes[i].Data]

\* the contents held by the version records a listing names, newest first
Snapshots(path, listing) ==
    [i \in 1..Len(listing) |-> VersionDir(S, path)[listing[i].VersionID].data]

----------------------------------------------------------------------------
(* C21 *)

\* C21: with versioning enabled and a limit of 2, each WriteFile of the
\* sequence "v1", "v2", "v3", "v4" on one file completes; once all four are
\* written ListVersions names exactly 2 records, the snapshots of "v2" and of
\* "v1" (newest first), and ReadFile returns "v4".
C21_VersioningScenario ==
    /\ stack # <<>> /\ stack[1].op = "WriteFileWithMode"
       /\ IsPrefix(Append(WrittenTo(stack[1].path), stack[1].data), Contents)
       => ~Deadlocked
    /\ stack = <<>> /\ WrittenTo(result.path) = Contents /\ result.err = Nil =>
          /\ result.op = "ListVersions" =>
                Snapshots(result.path, result.attrs) = <<"v2", "v1">>
          /\ result.op = "ReadFile" => result.out = "v4"

----------------------------------------------------------------------------
(* C22 *)

\* the call in progress is a RestoreVersion that found its version, on a
\* file that existed when the call began
Restoring ==
    /\ stack # <<>>
    /\ stack[1].op = "RestoreVersion"
    /\ stack[1].pc # "start"
    /\ IsFileAt(pre.host, FullOf(stack[1].path))

\* C22: RestoreVersion of an existing version on an existing file never waits
\* for a lock it cannot get; when it has returned without error the file holds
\* the content of that version, and the content the file had before the call
\* is the content of one of the version records of its path.
C22_RestoreRecovers ==
    /\ versioning /\ Restoring => ~Deadlocked
    /\ versioning /\ stack = <<>> /\ result.op = "RestoreVersion" /\ result.err = Nil
       /\ IsFileAt(pre.host, FullOf(result.path)) =>
          /\ NodeAt(host, FullOf(result.path)) = FileNode(result.data)
          /\ \E id \in DOMAIN VersionDir(S, result.path) :
                VersionDir(S, result.path)[id].data = pre.host[FullOf(result.path)].data

----------------------------------------------------------------------------
(* C23 *)

\* the first path argument of f names an existing file and the second one a
\* different path under the root
MovesFile(f) ==
    /\ f.op = "MoveFile"
    /\ IsFileAt(pre.host, FullOf(f.src))
    /\ ~Outside(f.path)
    /\ FullOf(f.path) # FullOf(f.src)

\* C23: with journaling enabled, MoveFile(src, dst) on an existing file src
\* never waits for a lock it cannot get; it returns without error, and then
\* src is absent and dst holds the content src had before the call.
C23_MoveFileCompletes ==
    /\ journaling /\ stack # <<>> /\ MovesFile(stack[1]) => ~Deadlocked
    /\ journaling /\ stack = <<>> /\ MovesFile(result) =>
          /\ result.err = Nil
          /\ NodeAt(host, FullOf(result.src)) = NoNode
          /\ NodeAt(host, FullOf(result.path)) = pre.host[FullOf(result.src)]

----------------------------------------------------------------------------
(* C30 *)

\* the call that returned was rejected by one of its pre-hooks
Vetoed ==
    /\ stack = <<>>
    /\ result.op \in HookedMethods
    /\ Failed(Invoked("pre"))
    /\ result.err = HookReturn(Last(Invoked("pre")))

\* C30: when a pre-hook has rejected a call, the directory tree under the
\* root, the attribute files and the journal are exactly as they were when the
\* call began: no parent directory was created, nothing was written or
\* removed and no entry was appended.
C30_VetoChangesNothing ==
    Vetoed =>
        /\ host = pre.host
        /\ attrFiles = pre.attrFiles
        /\ journal = pre.journal

----------------------------------------------------------------------------
(* Goroutines: sync.RWMutex under contention *)

\* the name of fs.hooksGuard among the mutexes a goroutine can wait for; the
\* other names are the keys of the lock registry
Guard == <<"hooksGuard">>

\* a frame of a goroutine: the frame of a method with what its waiting needs
GFrame(op, path, src, data) ==
    [op |-> op, pc |-> "start", path |-> path, src |-> src, data |-> data,
     full |-> <<>>, full2 |-> <<>>,
     want |-> <<>>,  \* the Lock / RLock calls still to make before `next`
     next |-> "",    \* where the frame continues once `want` is exhausted
     ann |-> FALSE,  \* waiting in Lock(), and the readers have been told
     held |-> <<>>,  \* registry locks whose release the frame has deferred
     guard |-> "",   \* how the frame holds hooksGuard: "", "r" or "w"
     typ |-> "pre",  \* phase of the executeHooks call in progress
     run |-> <<>>,   \* callbacks executeHooks has still to call
     ret |-> NoRet]  \* what the last callee returned

GTop(s, g) == Last(s.threads[g].stack)

GWithTop(s, g, f) ==
    [s EXCEPT !.threads[g].stack[Len(s.threads[g].stack)] = f]

Mutex(s, k) == IF k = Guard THEN s.hooksGuard ELSE s.locks[k]

SetMutex(s, k, m) ==
    IF k = Guard THEN [s EXCEPT !.hooksGuard = m] ELSE [s EXCEPT !.locks[k] = m]

\* goroutine g is inside a Lock() or RLock() call that has not returned
Awaiting(s, g) == s.threads[g].stack # <<>> /\ GTop(s, g).pc = "wait"

\* a writer waits in Lock() for the readers of mutex k to leave: from then on
\* RLock() blocks (rw.readerCount is negative)
Announced(s, k) ==
    \E g \in Goroutines :
        Awaiting(s, g) /\ Head(GTop(s, g).want) = W(k) /\ GTop(s, g).ann

\* the operation type a facade method puts in its HookContext
OperationOf(method) ==
    CASE method = "CreateDir" -> "createDir"
      [] method = "WriteFile" -> "writeFile"
      [] method = "ReadFile" -> "readFile"
      [] method = "ListDir" -> "listDir"
      [] method = "DeleteFile" -> "deleteFile"
      [] method = "DeleteDir" -> "deleteDir"
      [] method = "CopyFile" -> "copyFile"
      [] method = "MoveFile" -> "moveFile"
      [] OTHER -> "none"

\* hooks, ok := fs.hooks[key], read once the guard is held
HooksFor(s, f) ==
    LET key == HookKey(OperationOf(f.op), f.typ)
    IN  IF key \in DOMAIN s.hooks THEN s.hooks[key] ELSE <<>>

\* the frame once the Lock() or RLock() call it is in has returned
Granted(s, f) ==
    LET req == Head(f.want)
    IN  [f EXCEPT !.want = Tail(@), !.ann = FALSE,
                  !.pc = IF Tail(f.want) = <<>> THEN f.next ELSE "lock",
                  !.held = IF req.key = Guard THEN @ ELSE Append(@, req),
                  !.guard = IF req.key = Guard THEN req.mode ELSE @,
                  !.run = IF req = R(Guard) THEN HooksFor(s, f) ELSE @]

Grant(s, g) ==
    LET req == Head(GTop(s, g).want)
        m == Mutex(s, req.key)
        m2 == IF req.mode = "w" THEN [m EXCEPT !.w = TRUE] ELSE [m EXCEPT !.r = @ + 1]
    IN  GWithTop(SetMutex(s, req.key, m2), g, Granted(s, GTop(s, g)))

BrokenRequest(s, g) ==
    LET req == Head(GTop(s, g).want)
    IN  Grant(IF req.key = Guard THEN s ELSE getFileLock(s, req.key), g)

\* the next Lock() or RLock() call of the frame. RLock returns at once unless
\* a writer holds the mutex or waits for it; Lock returns at once when nobody
\* holds the mutex, and otherwise waits, first for the writers before it and
\* then, the readers told, for the readers to leave.
Request(s, g) ==
    LET f == GTop(s, g)
        req == Head(f.want)
        s1 == IF req.key = Guard THEN s ELSE getFileLock(s, req.key)
        m == Mutex(s1, req.key)
        busy == m.w \/ Announced(s1, req.key)
    IN  IF ~busy /\ (req.mode = "r" \/ m.r = 0) THEN Grant(s1, g)
        ELSE GWithTop(s1, g, [f EXCEPT !.pc = "wait",
                                       !.ann = req.mode = "w" /\ ~busy])

\* a waiting Lock() call can go on: the writers before it are gone and, if it
\* has told the readers, so are they
CanProceed(s, g) ==
    LET f == GTop(s, g)
        req == Head(f.want)
        m == Mutex(s, req.key)
    IN  /\ req.mode = "w"
        /\ ~m.w
        /\ IF f.ann THEN m.r = 0 ELSE ~Announced(s, req.key)

Proceed(s, g) ==
    LET f == GTop(s, g)
    IN  IF Mutex(s, Head(f.want).key).r = 0 THEN Grant(s, g)
        ELSE GWithTop(s, g, [f EXCEPT !.ann = TRUE])

\* Unlock() and RUnlock(). Unlock lets in every reader that waits in RLock().
Unlock(s, req) ==
    LET m == Mutex(s, req.key)
        woken == {g \in Goroutines :
                     Awaiting(s, g) /\ Head(GTop(s, g).want) = R(req.key)}
        s1 == SetMutex(s, req.key, [w |-> FALSE, r |-> Cardinality(woken)])
    IN  IF req.mode = "r" THEN SetMutex(s, req.key, [m EXCEPT !.r = @ - 1])
        ELSE [s1 EXCEPT !.threads =
                 [g \in Goroutines |->
                     IF g \in woken
                     THEN [s1.threads[g] EXCEPT
                              !.stack[Len(s1.threads[g].stack)] = Granted(s1, GTop(s1, g))]
                     ELSE s1.threads[g]]]

\* the deferred unlocks of a frame, last deferred first
RECURSIVE ReleaseHeld(_, _)
ReleaseHeld(s, held) ==
    IF held = <<>> THEN s ELSE ReleaseHeld(Unlock(s, Last(held)), Front(held))

\* return from the top frame of g: the guard and the deferred unlocks, then
\* the value goes to the caller or ends the goroutine's call
GReturn(s, g, r) ==
    LET f == GTop(s, g)
        s0 == IF f.guard = "" THEN s ELSE Unlock(s, [key |-> Guard, mode |-> f.guard])
        s1 == ReleaseHeld(s0, f.held)
        rest == Front(s1.threads[g].stack)
        caller == rest[Len(rest)]
        resumed == IF caller.pc = "hooked"
                   THEN [caller EXCEPT !.run = Tail(@), !.pc = "run", !.ret = r]
                   ELSE [caller EXCEPT !.ret = r]
    IN  IF rest = <<>>
        THEN [s1 EXCEPT !.threads[g].stack = <<>>, !.threads[g].out = r.err]
        ELSE [s1 EXCEPT !.threads[g].stack = [rest EXCEPT ![Len(rest)] = resumed]]

GReturnErr(s, g, err) == GReturn(s, g, [NoRet EXCEPT !.err = err])

\* set out to make the Lock / RLock calls `reqs` and continue at `next`
Locking(s, g, reqs, next) ==
    LET f == GTop(s, g)
    IN  IF reqs = <<>> THEN GWithTop(s, g, [f EXCEPT !.pc = next])
        ELSE GWithTop(s, g, [f EXCEPT !.want = reqs, !.next = next, !.pc = "lock"])

----------------------------------------------------------------------------
(* Goroutines: the facade methods, one Lock() call and one effect at a time.
   The files these goroutines work on have no attribute files, so that the
   GetAllAttributes calls of ListDir, CopyFile and MoveFile return before
   they lock anything; versioning is off. *)

\* the Lock / RLock calls of a facade method, in the order the method makes them
LockPlan(op, full, full2) ==
    CASE op = "CreateDir" -> <<W(Dir(full))>>
      [] op = "WriteFile" -> <<W(full)>>
      [] op \in {"ReadFile", "ListDir"} -> <<R(full)>>
      [] op \in {"DeleteFile", "DeleteDir"} -> <<W(full), W(Dir(full))>>
      [] op = "CopyFile" -> <<R(full2), W(full)>>
      [] op = "MoveFile" -> <<W(full2), W(full), W(Dir(full2)), W(Dir(full))>>

FacadeOps ==
    {"CreateDir", "WriteFile", "ReadFile", "ListDir", "DeleteFile", "DeleteDir",
     "CopyFile", "MoveFile"}

\* the methods that call Journal.Log between their pre-hooks and their effect
Logging == {"CreateDir", "WriteFile", "DeleteFile", "DeleteDir", "MoveFile"}

\* call a method from the top frame, which continues at pc when it returns
GCall(s, g, pc, callee) ==
    [GWithTop(s, g, [GTop(s, g) EXCEPT !.pc = pc]) EXCEPT
        !.threads[g].stack = Append(@, callee)]

\* what the method does to the host filesystem once hooks and journal are
\* passed
Effect(s, f) ==
    CASE f.op = "CreateDir" -> MkdirAll(s.host, f.full)
      [] f.op = "WriteFile" -> OsWriteFile(s.host, f.full, f.data)
      [] f.op = "ReadFile" -> [err |-> OsReadFile(s.host, f.full).err, h |-> s.host]
      [] f.op = "ListDir" ->
           [err |-> IF IsDirAt(s.host, f.full) THEN Nil
                    ELSE IF IsFileAt(s.host, f.full) THEN ErrNotDir
                    ELSE OsStat(s.host, f.full),
            h |-> s.host]
      [] f.op = "DeleteFile" -> OsRemove(s.host, f.full)
      [] f.op = "DeleteDir" -> OsRemoveAll(s.host, f.full)
      [] f.op = "CopyFile" ->
           LET m == MkdirAll(s.host, Dir(f.full))
               c == OsWriteFile(m.h, f.full, Empty)
           IN  IF OsStat(s.host, f.full2) # Nil
               THEN [err |-> OsStat(s.host, f.full2), h |-> s.host]
               ELSE IF m.err # Nil THEN [err |-> ErrParentDirs, h |-> s.host]
               ELSE IF c.err # Nil THEN [err |-> c.err, h |-> m.h]
               ELSE IF IsDirAt(s.host, f.full2) THEN [err |-> ErrIsDir, h |-> c.h]
               ELSE OsWriteFile(m.h, f.full, s.host[f.full2].data)
      [] f.op = "MoveFile" -> OsRename(s.host, f.full2, f.full)

\* the entry a method logs first
FirstEntry(f) ==
    CASE f.op = "CreateDir" -> Entry("mkdir", f.path, Empty, NoAttrs)
      [] f.op = "WriteFile" ->
           Entry("write", f.path, f.data, "mode" :> DecDigits(DefaultMode))
      [] f.op = "MoveFile" -> Entry("delete", f.src, Empty, NoAttrs)
      [] OTHER -> Entry("delete", f.path, Empty, NoAttrs)

\* one step of a facade method outside its Lock() calls and its hooks
FacadeStep(s, g) ==
    LET f == GTop(s, g)
    IN  CASE f.pc = "start" ->
               LET fp == fullPath(s.rootPath, f.path)
                   sp == fullPath(s.rootPath, f.src)
                   two == f.op \in TwoPath
                   m == MkdirAll(s.host, Dir(fp.full))
                   f1 == [f EXCEPT !.full = fp.full,
                                   !.full2 = IF two THEN sp.full ELSE <<>>]
                   s1 == IF f.op = "WriteFile" THEN [s EXCEPT !.host = m.h] ELSE s
               IN  IF two /\ sp.err # Nil THEN GReturnErr(s, g, sp.err)
                   ELSE IF fp.err # Nil THEN GReturnErr(s, g, fp.err)
                   ELSE IF f.op = "WriteFile" /\ m.err # Nil
                        THEN GReturnErr(s, g, ErrParentDirs)
                   ELSE IF f.op = "DeleteFile" /\ OsStat(s.host, fp.full) # Nil
                        THEN GReturnErr(s, g, OsStat(s.host, fp.full))
                   ELSE IF f.op = "DeleteFile" /\ IsDirAt(s.host, fp.full)
                        THEN GReturnErr(s, g, ErrDeleteIsDir)
                   ELSE Locking(GWithTop(s1, g, f1), g,
                                LockPlan(f.op, f1.full, f1.full2), "pre")
          [] f.pc = "log" ->
               LET m == MkdirAll(s.host, Dir(f.full))
                   s1 == IF f.op = "MoveFile" THEN [s EXCEPT !.host = m.h] ELSE s
                   l == Log(s1, FirstEntry(f))
               IN  IF f.op = "MoveFile" /\ m.err # Nil THEN GReturnErr(s, g, m.err)
                   ELSE IF ~s.journaling THEN GWithTop(s1, g, [f EXCEPT !.pc = "apply"])
                   ELSE IF l.err # Nil THEN GReturnErr(l.s, g, ErrLog)
                   ELSE IF f.op = "MoveFile"
                        THEN GCall(l.s, g, "log2", GFrame("ReadFile", f.src, NoPath, Empty))
                   ELSE GWithTop(l.s, g, [f EXCEPT !.pc = "apply"])
          [] f.pc = "log2" ->
               LET l == Log(s, Entry("write", f.path, f.ret.data, NoAttrs))
               IN  IF f.ret.err # Nil THEN GReturnErr(s, g, ErrReadSource)
                   ELSE IF l.err # Nil THEN GReturnErr(l.s, g, ErrLog)
                   ELSE GWithTop(l.s, g, [f EXCEPT !.pc = "apply"])
          [] f.pc = "apply" ->
               LET e == Effect(s, f)
                   data == IF f.op = "ReadFile" THEN OsReadFile(s.host, f.full).data
                           ELSE f.data
               IN  IF e.err # Nil THEN GReturnErr([s EXCEPT !.host = e.h], g, e.err)
                   ELSE GWithTop([s EXCEPT !.host = e.h], g,
                                 [f EXCEPT !.pc = "post", !.data = data])

\* the step of FacadeStep is one that waits for Journal.mu
NeedsJournal(s, g) ==
    /\ s.journaling
    /\ GTop(s, g).pc \in {"log", "log2"}

----------------------------------------------------------------------------
(* Goroutines: executeHooks and the callbacks *)

\* the path a callback of the caller's that reads a file reads
ReaderPath == Rel_(<<"b">>)

\* the registration a callback of the caller's that registers a hook makes
RegistrarEntry == RegEntry("readFile", "post", "hOk")

\* fs.executeHooks(typ, ctx): RLock on the guard, the callbacks of the key in
\* order, each one a step, then RUnlock. A callback is one of the constant
\* ones (HookReturn), BackupHook, or a callback of the caller's that calls
\* ctx.FS.ReadFile or ctx.FS.RegisterHook.
HooksStep(s, g) ==
    LET f == GTop(s, g)
        h == Head(f.run)
        freed == [GWithTop(Unlock(s, R(Guard)), g, f) EXCEPT
                     !.threads[g].stack[Len(s.threads[g].stack)].guard = ""]
    IN  IF f.pc \in {"pre", "post"}
        THEN Request(GWithTop(s, g, [f EXCEPT !.typ = f.pc, !.want = <<R(Guard)>>,
                                              !.next = "run"]), g)
        ELSE IF f.run = <<>>
        THEN IF f.typ = "post"
             THEN GReturn(s, g, [NoRet EXCEPT !.data = f.data])
             ELSE GWithTop(freed, g,
                           [GTop(freed, g) EXCEPT
                               !.pc = IF f.op \in Logging THEN "log" ELSE "apply"])
        ELSE IF h = "BackupHook"
        THEN IF OperationOf(f.op) \in {"writeFile", "deleteFile", "moveFile"}
                /\ FileExists(s, f.path)
             THEN GCall(s, g, "hooked", GFrame("ReadFile", f.path, NoPath, Empty))
             ELSE GWithTop(s, g, [f EXCEPT !.run = Tail(@)])
        ELSE IF h = "hReader"
        THEN GCall(s, g, "hooked", GFrame("ReadFile", ReaderPath, NoPath, Empty))
        ELSE IF h = "hRegistrar"
        THEN GCall(s, g, "hooked", GFrame("RegisterHook", NoPath, NoPath, RegistrarEntry))
        ELSE IF HookReturn(h) # Nil THEN GReturnErr(s, g, HookReturn(h))
        ELSE GWithTop(s, g, [f EXCEPT !.run = Tail(@)])

RegistrationOps == {"RegisterHook", "UnregisterHook", "UnregisterAllHooks"}

\* RegisterHook, UnregisterHook, UnregisterAllHooks: Lock on the guard, the
\* change of the table, Unlock
RegistrationStep(s, g) ==
    LET f == GTop(s, g)
        key == HookKey(f.data.Op, f.data.Typ)
        table == CASE f.op = "RegisterHook" -> Register(s.hooks, key, f.data.hook)
                   [] f.op = "UnregisterHook" -> RemoveKey(s.hooks, key)
                   [] OTHER -> <<>>
    IN  IF f.pc = "start"
        THEN Request(GWithTop(s, g, [f EXCEPT !.want = <<W(Guard)>>, !.next = "reg"]), g)
        ELSE GReturnErr([s EXCEPT !.hooks = table], g, Nil)

----------------------------------------------------------------------------
(* Goroutines: Journal.Log, Journal.Rotate, Journal.Truncate *)

JournalOps == {"Log", "Rotate", "Truncate"}

\* one step of a journal method; the first takes j.mu, the last frees it
JournalStep(s, g) ==
    LET f == GTop(s, g)
        l == Log(s, f.data)
    IN  CASE f.pc = "start" ->
               GWithTop([s EXCEPT !.jmu = g], g,
                        [f EXCEPT !.pc = IF f.op = "Log" THEN "write" ELSE "close"])
          [] f.pc = "write" -> GReturnErr([l.s EXCEPT !.jmu = "free"], g, l.err)
          [] f.pc = "close" ->
               GWithTop([s EXCEPT !.jfile = "nil"], g,
                        [f EXCEPT !.pc = IF f.op = "Rotate" THEN "rename" ELSE "truncate"])
          [] f.pc = "rename" ->
               GWithTop([s EXCEPT !.backups = Put(@, s.clock, s.journal),
                                  !.journal = <<>>],
                        g, [f EXCEPT !.pc = "open"])
          [] f.pc = "truncate" ->
               GWithTop([s EXCEPT !.journal = <<>>], g, [f EXCEPT !.pc = "open"])
          [] f.pc = "open" ->
               GReturnErr([s EXCEPT !.jfile = "open", !.jmu = "free"], g, Nil)

----------------------------------------------------------------------------
(* Goroutines: the actions *)

\* goroutine g is at one of the positions pcs of one of the methods ops
At(g, ops, pcs) ==
    /\ threads[g].stack # <<>>
    /\ Last(threads[g].stack).op \in ops
    /\ Last(threads[g].stack).pc \in pcs

\* goroutine g calls one of the methods in `calls`; it makes one call
Go(g, calls) ==
    /\ threads[g].stack = <<>> /\ threads[g].out = "none"
    /\ \E f \in calls :
          Commit([S EXCEPT !.threads[g] =
                     [stack |-> <<f>>, out |-> "none",
                      call |-> [op |-> f.op, path |-> f.path, src |-> f.src,
                                data |-> f.data]]])

GoFacade(g) ==
    /\ At(g, FacadeOps, {"start", "log", "log2", "apply"})
    /\ NeedsJournal(S, g) => jmu = "free"
    /\ Commit(FacadeStep(S, g))

GoHooks(g) ==
    /\ At(g, FacadeOps, {"pre", "post", "run"})
    /\ Commit(HooksStep(S, g))

GoRegister(g) ==
    /\ At(g, RegistrationOps, {"start", "reg"})
    /\ Commit(RegistrationStep(S, g))

\* a Lock() or RLock() call of g is made, or a waiting Lock() goes on
GoLock(g) ==
    \/ At(g, FacadeOps, {"lock"}) /\ Commit(Request(S, g))
    \/ Awaiting(S, g) /\ CanProceed(S, g) /\ Commit(Proceed(S, g))

GoJournal(g) ==
    /\ At(g, JournalOps, {"start", "write", "close", "rename", "truncate", "open"})
    /\ Last(threads[g].stack).pc = "start" => jmu = "free"
    /\ Commit(JournalStep(S, g))

\* a second passes
TickClock ==
    /\ clock < MaxClock
    /\ clock' = clock + 1
    /\ UNCHANGED <<rootPath, journaling, host, attrFiles, journal, jfile, jmu, locks,
                   hooks, regLog, stack, hookTrace, pre, result, original, resolved,
                   versioning, maxVersions, versions, lm, threads, hooksGuard,
                   backups>>

----------------------------------------------------------------------------
(* SpecThreads: two goroutines, one facade call each, no hooks *)

\* NewSimpleFS(Root, DefaultOptions()) on a root that holds regular files
\* with the names `files` already
Opened(files) ==
    LET fresh == HostOf(Root, DefaultOptions)
        h == [fp \in DOMAIN fresh \cup {Root \o <<n>> : n \in files} |->
                 IF fp \in DOMAIN fresh THEN fresh[fp] ELSE FileNode("x")]
    IN  /\ rootPath = Root
        /\ journaling = DefaultOptions.EnableJournaling
        /\ versioning = DefaultOptions.EnableVersioning
        /\ maxVersions = DefaultOptions.MaxVersions
        /\ versions = NoVersions
        /\ lm = NewExplicitLockManager
        /\ threads = [g \in Goroutines |-> NoThread]
        /\ hooksGuard = Unlocked
        /\ backups = <<>>
        /\ clock = 0
        /\ host = h
        /\ attrFiles = <<>>
        /\ journal = <<>>
        /\ jfile = "open"
        /\ jmu = "free"
        /\ locks = <<>>
        /\ hooks = <<>>
        /\ regLog = <<>>
        /\ stack = <<>>
        /\ hookTrace = <<>>
        /\ pre = Snapshot([host |-> h, attrFiles |-> <<>>, journal |-> <<>>,
                           jfile |-> "open", locks |-> <<>>, hooks |-> <<>>])
        /\ result = NoResult
        /\ original = NoOriginal
        /\ resolved = NoResolved

InitThreads == Opened({"a", "b"})

\* two spellings of one file, a second file, two directories to be, a file in
\* one of them
PathA == Rel_(<<"a">>)
PathA2 == Rel_(<<"d", "..", "a">>)
PathB == Rel_(<<"b">>)
PathC == Rel_(<<"c">>)
PathE == Rel_(<<"e">>)
PathF == Rel_(<<"c", "f">>)

ThreadCalls ==
    {GFrame(op, p, NoPath, "y") : op \in {"ReadFile", "WriteFile", "DeleteFile"},
                                  p \in {PathA, PathA2}}
    \cup {GFrame("CreateDir", p, NoPath, Empty) : p \in {PathC, PathE}}
    \cup {GFrame(op, PathC, NoPath, Empty) : op \in {"ListDir", "DeleteDir"}}
    \cup {GFrame(op, PathB, PathA, Empty) : op \in TwoPath}
    \cup {GFrame(op, PathA, PathB, Empty) : op \in TwoPath}
    \cup {GFrame("MoveFile", PathF, PathA, Empty)}

Workers == {"g1", "g2"}

NextThreads ==
    \E g \in Workers :
        \/ Go(g, ThreadCalls)
        \/ GoFacade(g)
        \/ GoHooks(g)
        \/ GoLock(g)

SpecThreads == InitThreads /\ [][NextThreads]_vars

\* the Lock / RLock calls of goroutine g that have returned and whose Unlock
\* has not been called
Sections(s, g) ==
    UNION {SeqToSet(s.threads[g].stack[i].held) : i \in DOMAIN s.threads[g].stack}
    \cup {[key |-> Guard, mode |-> s.threads[g].stack[i].guard] :
             i \in {j \in DOMAIN s.threads[g].stack : s.threads[g].stack[j].guard # ""}}

\* goroutine g is inside a Lock() or RLock() call that cannot return before
\* goroutine h has unlocked the mutex
Blocks(s, h, g) ==
    /\ Awaiting(s, g)
    /\ \E sec \in Sections(s, h) :
          /\ sec.key = Head(GTop(s, g).want).key
          /\ "w" \in {sec.mode, Head(GTop(s, g).want).mode}

\* goroutine g is inside an RLock() call behind the Lock() call of h, which
\* has told the readers and waits for them to leave
Overtaken(s, h, g) ==
    /\ h # g
    /\ Awaiting(s, g) /\ Awaiting(s, h)
    /\ Head(GTop(s, g).want).mode = "r"
    /\ Head(GTop(s, h).want) = W(Head(GTop(s, g).want).key)
    /\ GTop(s, h).ann

\* goroutines that wait for one another: none of them can ever go on
Stuck(s, D) ==
    /\ D # {}
    /\ \A g \in D : \E h \in D : Blocks(s, h, g) \/ Overtaken(s, h, g)

\* the paths a call names, resolved
Targets(call) ==
    {fullPath(Root, p).full : p \in {call.path, call.src} \ {NoPath}}

----------------------------------------------------------------------------
(* C24, C25, C26 *)

\* two calls of one two-path method on the same pair of paths, the arguments
\* exchanged
Opposite(c, d) ==
    /\ c.op \in TwoPath /\ d.op = c.op
    /\ c.path # c.src
    /\ d.path = c.src /\ d.src = c.path

\* C24: two concurrent calls MoveFile(a, b) and MoveFile(b, a), or
\* CopyFile(a, b) and CopyFile(b, a), never reach a state in which each is
\* inside a Lock() call on a resource lock that the other holds.
C24_NoOppositeOrderDeadlock ==
    \A g, h \in Goroutines :
        /\ g # h
        /\ threads[g].stack # <<>> /\ threads[h].stack # <<>>
        /\ Opposite(threads[g].call, threads[h].call)
        => ~(Blocks(S, g, h) /\ Blocks(S, h, g))

\* the methods C25 names
Serialized ==
    {"ReadFile", "ListDir", "WriteFile", "DeleteFile", "DeleteDir", "CopyFile",
     "MoveFile"}

\* C25: while a goroutine is between Lock and Unlock of the resource lock of
\* a resolved path, no other goroutine is between Lock and Unlock or between
\* RLock and RUnlock of that lock, whatever spelling of the path each call
\* was given.
C25_SamePathSerialized ==
    \A g, h \in Goroutines : \A k \in DOMAIN locks :
        /\ g # h
        /\ threads[g].stack # <<>> /\ threads[h].stack # <<>>
        /\ threads[g].call.op \in Serialized /\ threads[h].call.op \in Serialized
        /\ W(k) \in Sections(S, g)
        => \A sec \in Sections(S, h) : sec.key # k

\* a goroutine is in the write section of a file while another, given a
\* different spelling of the same file, is inside the call that locks it
C25_Witness ==
    \E g, h \in Goroutines :
        /\ g # h
        /\ threads[g].stack # <<>> /\ threads[h].stack # <<>>
        /\ threads[g].call.op = "WriteFile" /\ threads[h].call.op = "ReadFile"
        /\ threads[g].call.path = PathA /\ threads[h].call.path = PathA2
        /\ W(FullOf(PathA)) \in Sections(S, g)
        /\ Awaiting(S, h)
        /\ Head(GTop(S, h).want) = R(FullOf(PathA))

\* C26: of two facade calls that name no common resolved path, neither is
\* ever inside a Lock() or RLock() call that cannot return before the other
\* has unlocked.
C26_DisjointPathsParallel ==
    \A g, h \in Goroutines :
        /\ g # h
        /\ threads[g].stack # <<>> /\ threads[h].stack # <<>>
        /\ Targets(threads[g].call) \cap Targets(threads[h].call) = {}
        => ~Blocks(S, g, h)

----------------------------------------------------------------------------
(* SpecGuard: one goroutine calls a facade method while two others change
   the hook table *)

InitGuard == Opened({"a", "b"})

\* the callbacks registered under SpecGuard: the constant ones, BackupHook,
\* and two callbacks of the caller's that use ctx.FS
GuardHooks == {"hOk", "hErrA", "BackupHook", "hReader", "hRegistrar"}

GuardCalls(g) ==
    IF g = "g1"
    THEN {GFrame("WriteFile", PathA, NoPath, "y"), GFrame("ReadFile", PathA, NoPath, Empty)}
    ELSE {GFrame("RegisterHook", NoPath, NoPath, RegEntry("writeFile", "pre", h)) :
             h \in GuardHooks}
         \cup {GFrame("UnregisterHook", NoPath, NoPath, RegEntry("writeFile", "pre", "")),
               GFrame("UnregisterAllHooks", NoPath, NoPath, RegEntry("", "", ""))}

NextGuard ==
    \E g \in Goroutines :
        \/ Go(g, GuardCalls(g))
        \/ GoFacade(g)
        \/ GoHooks(g)
        \/ GoRegister(g)
        \/ GoLock(g)

SpecGuard == InitGuard /\ [][NextGuard]_vars

----------------------------------------------------------------------------
(* C28, C29 *)

\* goroutine g is inside the callback h, called by executeHooks for the
\* facade call g made
InHook(g, h) ==
    /\ Len(threads[g].stack) > 1
    /\ threads[g].stack[1].pc = "hooked"
    /\ Head(threads[g].stack[1].run) = h

\* C28: with BackupHook registered as a writeFile pre-hook, a WriteFile call
\* on an existing file is never, inside BackupHook, in a Lock() or RLock()
\* call on a resource lock that cannot return before the call itself has
\* unlocked it.
C28_BackupHookReads ==
    \A g \in Goroutines :
        /\ threads[g].stack # <<>>
        /\ threads[g].call.op = "WriteFile"
        /\ InHook(g, "BackupHook")
        => ~Blocks(S, g, g)

\* C29: no goroutines, one of them inside a Lock() or RLock() call on the
\* hook guard, ever wait for one another, whatever the callbacks call.
C29_RegistrationSafe ==
    \A D \in SUBSET Goroutines :
        (\E g \in D : Awaiting(S, g) /\ Head(GTop(S, g).want).key = Guard)
        => ~Stuck(S, D)

----------------------------------------------------------------------------
(* SpecRotate: three goroutines, each with one call of Log, Rotate or
   Truncate, and the clock that names the backup files *)

InitRotate == Opened({})

\* the entry goroutine g logs
EntryOf(g) == Entry("write", PathA, g, NoAttrs)

\* Rotate and Truncate take no argument
NoEntry == Entry("none", NoPath, Empty, NoAttrs)

JournalCalls(g) ==
    {GFrame("Log", NoPath, NoPath, EntryOf(g))}
    \cup {GFrame(op, NoPath, NoPath, NoEntry) : op \in {"Rotate", "Truncate"}}

NextRotate ==
    \/ TickClock
    \/ \E g \in Goroutines :
          \/ Go(g, JournalCalls(g))
          \/ GoJournal(g)

SpecRotate == InitRotate /\ [][NextRotate]_vars

----------------------------------------------------------------------------
(* C27 *)

\* goroutine g has made its call
Called(g) == threads[g].stack # <<>> \/ threads[g].out # "none"

\* the entries whose Log call has returned nil
Acknowledged ==
    {threads[g].call.data :
        g \in {x \in Goroutines : /\ Called(x)
                                  /\ threads[x].call.op = "Log"
                                  /\ threads[x].out = Nil}}

\* how many times an entry stands in a journal file
Occurrences(file, e) == Len(SelectSeq(file, LAMBDA x : x = e))

RECURSIVE InBackups(_, _)
InBackups(stamps, e) ==
    IF stamps = {} THEN 0
    ELSE LET t == CHOOSE x \in stamps : TRUE
         IN  Occurrences(backups[t], e) + InBackups(stamps \ {t}, e)

\* C27: as long as no Truncate call is made, every entry whose Log call
\* returned nil stands exactly once in the rotated backup files and the
\* current journal file together; and while a goroutine is between the close
\* and the reopening of the file in Rotate or Truncate, no other goroutine is
\* at the Write of Log.
C27_RotateKeepsEntries ==
    /\ (\A g \in Goroutines :
           Called(g) => threads[g].call.op # "Truncate")
       => \A e \in Acknowledged :
             Occurrences(journal, e) + InBackups(DOMAIN backups, e) = 1
    /\ \A g, h \in Goroutines :
          /\ At(g, {"Rotate", "Truncate"}, {"close", "rename", "truncate", "open"})
          /\ At(h, {"Log"}, {"write"})
          => FALSE

----------------------------------------------------------------------------
(* C31 *)

\* the methods C31 names
Mutating == {"WriteFile", "DeleteFile", "MoveFile"}

\* the journal entries whose path resolves to the full path p
EntriesFor(p) == SelectSeq(journal, LAMBDA e : fullPath(rootPath, e.Path).full = p)

\* the host filesystem holds at p what the entry e describes
Described(e, p) ==
    CASE e.Operation = "write" -> NodeAt(host, p) = FileNode(e.Data)
      [] e.Operation = "delete" -> NodeAt(host, p) = NoNode
      [] OTHER -> TRUE

\* goroutine g has logged an entry and has not applied its mutation yet
Pending(g) ==
    /\ journaling
    /\ \E i \in DOMAIN threads[g].stack : threads[g].stack[i].pc \in {"log2", "apply"}

\* C31: when the goroutines call WriteFile, DeleteFile and MoveFile only,
\* the last journal entry of a resolved path describes what the host
\* filesystem holds at the path whenever no goroutine is in the write section
\* of the path, and a goroutine that has logged its entry and not yet applied
\* the mutation is never in a Lock() or RLock() call that cannot return.
C31_JournalOrderIsApplicationOrder ==
    (\A g \in Goroutines : Called(g) => threads[g].call.op \in Mutating)
    => /\ \A p \in DOMAIN locks :
             /\ EntriesFor(p) # <<>>
             /\ \A g \in Goroutines : W(p) \notin Sections(S, g)
             => Described(Last(EntriesFor(p)), p)
       /\ \A g \in Goroutines : Pending(g) => ~Blocks(S, g, g)

----------------------------------------------------------------------------
(* SpecReplay: directories made and deleted through the facade, then Recover;
   the caller never calls DeleteFile, so every delete entry in the journal
   was written by DeleteDir *)

ReplayPaths == {Rel_(<<"d">>), Rel_(<<"d", "f">>)}

ReplayCalls ==
    {F1(op, p) : op \in {"CreateDir", "DeleteDir"}, p \in ReplayPaths}
    \cup {Frame("WriteFileWithMode", p, NoPath, "x", DefaultMode, "", <<>>) :
             p \in ReplayPaths}
    \cup {F1("Recover", NoPath)}

NextReplay ==
    \/ Call(ReplayCalls)
    \/ Discard
    \/ CreateDir
    \/ WriteFileWithMode
    \/ DeleteFile
    \/ DeleteDir
    \/ Recover

SpecReplay == Init /\ [][NextReplay]_vars

----------------------------------------------------------------------------
(* C32 *)

\* C32: when Recover replays the retained entry of a path, the entry is a
\* delete entry written by DeleteDir and the path is a directory, the
\* primitive it calls is DeleteDir; and when Recover has returned, no path
\* whose retained entry is such a delete entry and that was a directory when
\* Recover began is there any more.
C32_ReplayOfDirectoryDelete ==
    /\ /\ Len(stack) > 1
       /\ stack[1].op = "Recover"
       /\ stack[1].fileState[stack[2].path].Operation = "delete"
       /\ IsDirAt(host, FullOf(stack[2].path))
       => stack[2].op = "DeleteDir"
    /\ Returned("Recover") /\ result.err = Nil =>
          \A p \in DOMAIN LastEntries(pre.journal, <<>>) :
              /\ LastEntries(pre.journal, <<>>)[p].Operation = "delete"
              /\ IsDirAt(pre.host, FullOf(p))
              => NodeAt(host, FullOf(p)) = NoNode

----------------------------------------------------------------------------
(* SpecRestore: a facade with versioning and without a journal, on a root
   that holds one version record of the document with an attribute snapshot *)

\* Options{EnableJournaling: false, EnableVersioning: true}
RestoreOptions ==
    [EnableJournaling |-> FALSE, EnableVersioning |-> TRUE, MaxVersions |-> MaxVersions]

\* the attribute snapshot of the version record
SnapshotAttrs == "k" :> <<"v">>

\* the version record of Doc found on disk at construction
Archived ==
    [dirs |-> Put(<<>>, Doc,
                  Put(<<>>, VersionIDs[1],
                      Record(VersionInfo(VersionIDs[1], Doc, 1, "x", SnapshotAttrs), "x"))),
     issued |-> 1]

InitRestore == NewSimpleFS(Root, RestoreOptions) /\ versions = Archived

RestoreCalls ==
    {F1(op, Doc) : op \in {"DeleteDir", "GetAllAttributes"}}
    \cup {Frame("WriteFileWithMode", Doc, NoPath, "y", DefaultMode, "", <<>>)}
    \cup {Frame("SetAttribute", Doc, NoPath, Empty, DefaultMode, k, v) :
             k \in AttrKeys, v \in {<<"v">>, <<"w">>}}
    \cup {Frame("RestoreVersion", Doc, NoPath, Empty, DefaultMode, VersionIDs[1], <<>>)}

NextRestore ==
    \/ Call(RestoreCalls)
    \/ Discard
    \/ WriteFileWithMode
    \/ ReadFile
    \/ DeleteDir
    \/ SetAttribute
    \/ GetAllAttributes
    \/ createVersion
    \/ RestoreVersion

SpecRestore == InitRestore /\ [][NextRestore]_vars

----------------------------------------------------------------------------
(* C33 *)

\* C33: when RestoreVersion(P, v) has returned nil, the attribute map of P is
\* the attribute snapshot of the version record v.
C33_RestoreOverwritesAttributes ==
    /\ Returned("RestoreVersion")
    /\ result.err = Nil
    /\ result.key \in DOMAIN VersionDir(S, result.path)
    => AttrsAt(attrFiles, result.path)
          = VersionDir(S, result.path)[result.key].info.Attributes

----------------------------------------------------------------------------
(* SpecExplicit: primitives on a file while callers take and release explicit
   locks on the same file *)

\* the file, as the primitives and as LockFile name it, and a second file
Locked == Rel_(<<"p">>)
Other == Rel_(<<"q">>)

ExplicitCalls ==
    {F1(op, Locked) : op \in {"ReadFile", "DeleteFile", "GetAllAttributes"}}
    \cup {Frame("WriteFileWithMode", Locked, NoPath, "x", DefaultMode, "", <<>>)}
    \cup {Frame("SetAttribute", Locked, NoPath, Empty, DefaultMode, "k", <<"v">>)}
    \cup {Frame("CopyFile", Other, Locked, Empty, DefaultMode, "", <<>>)}

NextExplicit ==
    \/ Call(ExplicitCalls)
    \/ Discard
    \/ WriteFileWithMode
    \/ ReadFile
    \/ DeleteFile
    \/ SetAttribute
    \/ GetAllAttributes
    \/ CopyFile
    \/ \E owner \in Owners, lockType \in LockTypes : AcquireLock("p", owner, lockType, 0)
    \/ \E owner \in Owners : ReleaseLock("p", owner)

SpecExplicit == Init /\ [][NextExplicit]_vars

----------------------------------------------------------------------------
(* C34 *)

\* the contents the explicit lock table can have for the file
LockTables ==
    {<<>>} \cup {"p" :> LockInfo("p", lockType, owner, 0, 0) :
                    lockType \in LockTypes, owner \in Owners}

\* the step the primitive at the top of the stack of s takes
StepOf(s, k) ==
    CASE Top(s).op = "WriteFileWithMode" -> WriteFileWithModeStep(s)
      [] Top(s).op = "ReadFile" -> ReadFileStep(s)
      [] Top(s).op = "DeleteFile" -> DeleteFileStep(s)
      [] Top(s).op = "SetAttribute" -> SetAttributeStep(s)
      [] Top(s).op = "GetAllAttributes" -> GetAllAttributesStep(s)
      [] Top(s).op = "CopyFile" -> CopyFileStep(s, k)

\* C34: whatever the explicit lock table holds, a step of a primitive leads
\* to the same state but for the table, which it leaves as it is: from two
\* states that differ in the table only, the primitives return the same
\* results and leave the same filesystem.
C34_ExplicitLocksApart ==
    /\ [](stack # <<>> /\ Last(stack).pc # "blocked" =>
             \A table \in LockTables : \A k \in Choices(S) :
                 StepOf([S EXCEPT !.lm.locks = table], k)
                    = [StepOf(S, k) EXCEPT !.lm.locks = table])
    /\ [][facadeVars' # facadeVars => lm' = lm]_vars

\* WriteFile has written the file while another caller holds the explicit
\* write lock on it
C34_Witness ==
    /\ Returned("WriteFileWithMode")
    /\ result.err = Nil
    /\ result.path = Locked
    /\ WriteLocked(lm, "p")

----------------------------------------------------------------------------
(* Writing and reading back, contents and attributes: calls on a file, its
   directory and a second file, two contents, no journal, no hooks, no
   versions *)

PlainOptions ==
    [EnableJournaling |-> FALSE, EnableVersioning |-> FALSE, MaxVersions |-> 10]

InitRoundTrip == NewSimpleFS(Root, PlainOptions) /\ versions = NoVersions

RoundTripFiles == {Rel_(<<"a">>), Rel_(<<"d", "f">>)}

RoundTripCalls ==
    {F1(op, p) : op \in {"ReadFile", "DeleteFile", "DeleteDir"}, p \in RoundTripFiles}
    \cup {F1("DeleteDir", Rel_(<<"d">>))}
    \cup {Frame("WriteFileWithMode", p, NoPath, d, DefaultMode, "", <<>>) :
             p \in RoundTripFiles, d \in HookData}
    \cup {Frame(op, dst, src, Empty, DefaultMode, "", <<>>) :
             op \in {"CopyFile", "MoveFile"}, dst \in RoundTripFiles,
             src \in RoundTripFiles}
    \cup {F1("GetAllAttributes", p) : p \in RoundTripFiles}
    \cup {Frame("SetAttribute", Doc, NoPath, Empty, DefaultMode, "k", <<"v">>)}

NextRoundTrip ==
    \/ Call(RoundTripCalls)
    \/ Discard
    \/ WriteFileWithMode
    \/ ReadFile
    \/ DeleteFile
    \/ DeleteDir
    \/ CopyFile
    \/ MoveFile
    \/ SetAttribute
    \/ GetAllAttributes

SpecRoundTrip == InitRoundTrip /\ [][NextRoundTrip]_vars

\* the call that returned is a WriteFile, DeleteFile, MoveFile or CopyFile
\* with fp as its target, or a MoveFile with fp as the source it removes
NamesFile(r, fp) ==
    \/ r.op \in {"WriteFileWithMode", "DeleteFile", "MoveFile", "CopyFile"}
       /\ FullOf(r.path) = fp
    \/ r.op = "MoveFile" /\ FullOf(r.src) = fp

\* the call that returned is a DeleteDir of fp or of a directory above it
RemovesTree(r, fp) == r.op = "DeleteDir" /\ IsPrefix(FullOf(r.path), fp)

Succeeded == stack = <<>> /\ result.op # "none" /\ result.err = Nil

\* a successful WriteFile leaves its bytes in the file, a successful ReadFile
\* returns the bytes in the file, and a successful call that Spares(fp) holds
\* for leaves the file fp as it was
RoundTrip(Spares(_)) ==
    Succeeded =>
       /\ result.op = "WriteFileWithMode" =>
             NodeAt(host, FullOf(result.path)) = FileNode(result.data)
       /\ result.op = "ReadFile" =>
             FileNode(result.out) = NodeAt(pre.host, FullOf(result.path))
       /\ \A fp \in DOMAIN pre.host :
             IsFileAt(pre.host, fp) /\ Spares(fp) => NodeAt(host, fp) = pre.host[fp]

(* C35 *)

----------------------------------------------------------------------------
(* C36 *)

\* the paths that get a lock entry under NextWaitOne; any other path has no
\* entry when a WaitForLock on it begins, and none later
EverLocked == {"p"}

\* C36: a WaitForLock call that begins when its path has no lock entry
\* returns true without waiting out maxWait: the timer case of its select is
\* never the one taken. Under NextWaitOne the calls on a path outside
\* EverLocked are such calls.
C36_NoLostWakeup ==
    \A t \in Waiters : lm.w[t].pc = "timeout" => lm.w[t].path \in EverLocked

----------------------------------------------------------------------------
(* C37 *)

\* the entries the call in progress, or the call that returned, has logged
LoggedByCall == SubSeq(journal, Len(pre.journal) + 1, Len(journal))

\* a MoveFile call has ended without completing: it returned an error, or it
\* waits on a lock that is never given back
MoveGaveUp ==
    \/ Returned("MoveFile") /\ result.err # Nil
    \/ stack # <<>> /\ stack[1].op = "MoveFile" /\ Last(stack).pc = "blocked"

\* the source of the MoveFile call in progress or returned
MoveSource == IF stack = <<>> THEN result.src ELSE stack[1].src

\* C37: MoveFile is all-or-nothing with respect to the journal: a MoveFile
\* that fails or does not complete leaves no entry in the journal that
\* recovery would replay as the deletion of a source that still exists.
C37_MoveJournalAllOrNothing ==
    MoveGaveUp =>
       \A i \in 1..Len(LoggedByCall) :
          LoggedByCall[i].Operation = "delete" /\ LoggedByCall[i].Path = MoveSource
          => FullOf(MoveSource) \notin DOMAIN host

----------------------------------------------------------------------------
(* C38 *)

\* Recover is replaying a "write" entry: the frame above it is the
\* WriteFileWithMode call it makes
ReplayingWrite ==
    /\ Len(stack) >= 2
    /\ stack[1].op = "Recover"
    /\ stack[2].op = "WriteFileWithMode"

\* C38: the mode Recover passes to WriteFileWithMode when it replays the
\* entry of a write is the mode that write was given: the digits recorded in
\* the entry's "mode" attribute are those of the mode passed on replay.
C38_RecoveredModeKept ==
    ReplayingWrite =>
       LET e == stack[1].fileState[stack[2].path]
       IN  "mode" \in DOMAIN e.Attributes =>
              e.Attributes["mode"] = DecDigits(stack[2].mode)

----------------------------------------------------------------------------
(* C39 *)

\* the call that returned is a successful WriteFile that created its file
WroteNewFile ==
    /\ Returned("WriteFileWithMode")
    /\ result.err = Nil
    /\ FullOf(result.path) \notin DOMAIN pre.host

\* C39: attributes do not outlive their file. A file written at a path where
\* none was, after DeleteFile removed or MoveFile moved away the file that
\* was there, starts with no attributes, and GetAllAttributes returns the
\* attributes the path has: on the new file, an empty map.
C39_AttributesDieWithFile ==
    /\ WroteNewFile => AttrsAt(attrFiles, result.path) = NoAttrs
    /\ Returned("GetAllAttributes") /\ result.err = Nil =>
          result.attrs = AttrsAt(attrFiles, result.path)

----------------------------------------------------------------------------
(* C40 *)

\* the goroutines inside the section sec
HoldersOf(sec) == {g \in Goroutines : sec \in Sections(S, g)}

\* C40: getFileLock hands every caller of one resolved path the same mutex,
\* under any interleaving, and callers of different paths different ones:
\* the mutex the registry has for a path is locked for writing exactly while
\* a goroutine is inside a write section of that path, by one goroutine at
\* most, and for reading exactly while goroutines are inside read sections
\* of it. An entry once created is never removed: the registry only grows.
C40_LockRegistry ==
    /\ [](\A g \in Goroutines : \A sec \in Sections(S, g) :
             sec.key # Guard => sec.key \in DOMAIN locks)
    /\ [](\A k \in DOMAIN locks :
             /\ locks[k].w <=> HoldersOf(W(k)) # {}
             /\ Cardinality(HoldersOf(W(k))) <= 1
             /\ locks[k].r > 0 <=> HoldersOf(R(k)) # {})
    /\ [][DOMAIN locks \subseteq DOMAIN locks']_vars

\* two goroutines asked for the mutex of one path, one is inside its write
\* section and the other waits for it, while the registry has the mutex of
\* another path as well
C40_Witness ==
    \E g, h \in Goroutines : \E k \in DOMAIN locks :
       /\ g # h
       /\ W(k) \in Sections(S, g)
       /\ Awaiting(S, h)
       /\ Head(GTop(S, h).want).key = k
       /\ locks[k].w
       /\ Cardinality(DOMAIN locks) >= 2

====
